---- MODULE Spec2Model ----
(***************************************************************************)
(* Point-in-time feature pipeline of nbaPropsPrediction.                   *)
(*                                                                         *)
(* Tables (Django models Player, Game, PlayerStats), the export files, the  *)
(* model directory and the predictor's cache are the state; the ingestion  *)
(* loop body, features.get_model_inputs, views._build_latest_features, the *)
(* export_raw command, the feature_engineering script, train_all_models    *)
(* and ModelPredictor.predict_probability are the actions.  DataFrames are *)
(* sequences of records, Series are sequences of values.                   *)
(*                                                                         *)
(* Floats are exact rationals <<numerator, denominator>> in lowest terms,  *)
(* NaN is <<0, 0>>.  A standard deviation is carried by its square (the    *)
(* sample variance), which is defined and equal exactly when the standard  *)
(* deviation is.                                                           *)
(***************************************************************************)
EXTENDS Integers, Sequences, FiniteSets, TLC

VARIABLES
    Player,       \* table Player: nba_id -> [first_name, last_name, current_team]
    Game,         \* table Game: game_id -> [date, home_team, away_team]
    PlayerStats,  \* table PlayerStats: the rows, in storage order
    last,         \* the operation that ran last, with its locals and what it returned
    exports,      \* the files exports/nba_mvp_data.csv and exports/nba_model_ready.csv
    model_files,  \* the model artifacts in MODEL_DIR: file name -> model
    _models       \* ModelPredictor._models of the global predictor: cache key -> model

vars == <<Player, Game, PlayerStats, last, exports, model_files, _models>>

(***************************************************************************)
(* Bounds of the model.                                                    *)
(***************************************************************************)
\* games ingested under Spec (rolling features of one starter)
MaxGames == 6
\* games ingested under SpecSolo (long timelines, two kinds of game)
MaxSoloGames == 12
\* games ingested under SpecLeague (two teams' players, three opponents)
MaxLeagueGames == 6
\* games ingested under SpecServe (export, training and prediction)
MaxServeGames == 7
\* games ingested under SpecBench (three kinds of game, a quarters-only player)
MaxBenchGames == 7
\* games ingested under SpecNamesakes (two players of one name)
MaxNamesakeGames == 6
\* games ingested under SpecManual (training and the prediction endpoint)
MaxManualGames == 7
\* games ingested under SpecStore (re-ingestion and direct inserts)
MaxStoreGames == 3
\* games ingested under SpecDefense (more than a defense window of one opponent)
MaxDefenseGames == 13
\* first games of SpecDefense that may be played against a second opponent
OpeningGames == 2
\* significant bits of a float (53 in the interpreter; rounding is to nearest,
\* ties to even, at any width)
Precision == 6

(***************************************************************************)
(* Floats.                                                                 *)
(***************************************************************************)
\* a sequence given by a rule, evaluated once
List(f) == f \o <<>>

\* a function given by a rule, evaluated once
Fcn(f) == f @@ <<>>

NaN == <<0, 0>>

isnan(v) == v[2] = 0

RECURSIVE GCD(_, _)
GCD(a, b) == IF b = 0 THEN a ELSE GCD(b, a % b)

Abs(n) == IF n < 0 THEN -n ELSE n

\* n/d in lowest terms, d > 0
Rat(n, d) == LET g == GCD(Abs(n), d) IN <<n \div g, d \div g>>

float(n) == <<n, 1>>

RatAdd(a, b) == Rat(a[1] * b[2] + b[1] * a[2], a[2] * b[2])

RatDivInt(a, k) == Rat(a[1], a[2] * k)

RatLess(a, b) == a[1] * b[2] < b[1] * a[2]

RECURSIVE Pow(_, _)
Pow(b, k) == IF k = 0 THEN 1 ELSE b * Pow(b, k - 1)

RatSub(a, b) == RatAdd(a, <<-b[1], b[2]>>)

\* a / b for b > 0
RatDiv(a, b) == Rat(a[1] * b[2], a[2] * b[1])

RatMin(a, b) == IF RatLess(b, a) THEN b ELSE a

RatMax(a, b) == IF RatLess(a, b) THEN b ELSE a

\* math.floor
floor(x) == x[1] \div x[2]

\* n/d times the power of two that brings it into
\* [2^(Precision-1), 2^Precision), with the exponent of that power
RECURSIVE Scaled(_, _, _)
Scaled(n, d, k) ==
    IF n < d * Pow(2, Precision - 1) THEN Scaled(2 * n, d, k + 1)
    ELSE IF n >= d * Pow(2, Precision) THEN Scaled(n, 2 * d, k - 1)
    ELSE <<n, d, k>>

\* the float an arithmetic result is stored as: the nearest number with
\* Precision significant bits, a tie going to the even mantissa
Round(q) ==
    IF q[1] = 0 THEN q
    ELSE LET s == Scaled(Abs(q[1]), q[2], 0)
             m == s[1] \div s[2]
             rest == 2 * (s[1] - m * s[2])
             up == rest > s[2] \/ (rest = s[2] /\ m % 2 = 1)
             mant == (IF q[1] < 0 THEN -1 ELSE 1) * (IF up THEN m + 1 ELSE m)
         IN  IF s[3] >= 0 THEN Rat(mant, Pow(2, s[3]))
             ELSE float(mant * Pow(2, -s[3]))

(***************************************************************************)
(* pandas Series primitives.  A Series is a sequence of floats.            *)
(***************************************************************************)
\* x.shift(1): every value moves one position later, the first becomes NaN
NoShift(x) == x

Shift1(x) == List([i \in 1..Len(x) |-> IF i = 1 THEN NaN ELSE x[i - 1]])

\* positions of the fixed-size window that ends at position i
WindowAt(i, window) == {j \in 1..i : j > i - window}

\* the non-NaN positions among them
Observed(s, i, window) == {j \in WindowAt(i, window) : ~isnan(s[j])}

RECURSIVE SumOver(_, _)
SumOver(s, J) ==
    IF J = {} THEN float(0)
    ELSE LET j == CHOOSE k \in J : TRUE IN RatAdd(s[j], SumOver(s, J \ {j}))

RECURSIVE SumSqOver(_, _)
SumSqOver(s, J) ==
    IF J = {} THEN 0
    ELSE LET j == CHOOSE k \in J : TRUE IN s[j][1] * s[j][1] + SumSqOver(s, J \ {j})

\* s.rolling(window, min_periods).mean()
RollingMean(s, window, min_periods) ==
    List([i \in 1..Len(s) |->
        LET J == Observed(s, i, window) IN
        IF Cardinality(J) >= min_periods /\ J # {}
        THEN RatDivInt(SumOver(s, J), Cardinality(J))
        ELSE NaN])

\* s.rolling(window, min_periods).std() squared: the sample variance (ddof 1)
\* of the observations in the window; the series holds whole numbers
RollingStd(s, window, min_periods) ==
    List([i \in 1..Len(s) |->
        LET J == Observed(s, i, window)
            n == Cardinality(J)
            sum == SumOver(s, J)[1]
        IN  IF n >= min_periods /\ n >= 2
            THEN Rat(n * SumSqOver(s, J) - sum * sum, n * (n - 1))
            ELSE NaN])

\* s.ewm(span, adjust=False).mean(), ignore_na=False: alpha = 2/(span+1);
\* the running average carries over NaN positions, and an observation that
\* comes k positions after the previous one is weighted alpha against
\* (1-alpha)^k for the running average
RECURSIVE EwmFrom(_, _, _, _, _)
EwmFrom(s, i, weighted, gap, alpha) ==
    IF i > Len(s) THEN <<>>
    ELSE LET cur == s[i]
             an == alpha[1]
             ad == alpha[2]
             oldw == Pow(ad - an, gap)
             neww == an * Pow(ad, gap - 1)
             next == IF isnan(cur) THEN weighted
                     ELSE IF isnan(weighted) THEN cur
                     ELSE Rat(oldw * weighted[1] * cur[2] + neww * cur[1] * weighted[2],
                              (oldw + neww) * weighted[2] * cur[2])
             nextgap == IF isnan(cur) /\ ~isnan(weighted) THEN gap + 1 ELSE 1
         IN <<next>> \o EwmFrom(s, i + 1, next, nextgap, alpha)

Ewm(s, span) == EwmFrom(s, 1, NaN, 1, Rat(2, span + 1))

(***************************************************************************)
(* Strings that the code splits, lower-cases or searches are sequences of  *)
(* characters; team abbreviations are compared whole and stay strings.     *)
(***************************************************************************)
\* the characters that occur, in code-point order
Alphabet == <<" ", "A", "B", "J", "L", "R", "a", "b", "e", "j", "l", "o", "r", "y">>

ord(c) == CHOOSE i \in 1..Len(Alphabet) : Alphabet[i] = c

lowerChar(c) ==
    CASE c = "A" -> "a" [] c = "B" -> "b" [] c = "J" -> "j"
      [] c = "L" -> "l" [] c = "R" -> "r" [] OTHER -> c

lower(s) == List([i \in 1..Len(s) |-> lowerChar(s[i])])

\* str.upper() of a team code
upper(code) ==
    CASE code = "bos" -> "BOS" [] code = "lal" -> "LAL" [] code = "nyk" -> "NYK"
      [] OTHER -> code

\* a < b in Python's string order
RECURSIVE StrLess(_, _)
StrLess(a, b) ==
    IF b = <<>> THEN FALSE
    ELSE IF a = <<>> THEN TRUE
    ELSE IF a[1] = b[1] THEN StrLess(Tail(a), Tail(b))
    ELSE ord(a[1]) < ord(b[1])

\* str.strip()
RECURSIVE lstrip(_)
lstrip(s) == IF s # <<>> /\ s[1] = " " THEN lstrip(Tail(s)) ELSE s

RECURSIVE rstrip(_)
rstrip(s) ==
    IF s # <<>> /\ s[Len(s)] = " " THEN rstrip(SubSeq(s, 1, Len(s) - 1)) ELSE s

strip(s) == rstrip(lstrip(s))

\* [part for part in s.split(" ") if part]
RECURSIVE SplitFrom(_, _)
SplitFrom(s, word) ==
    IF s = <<>> THEN (IF word = <<>> THEN <<>> ELSE <<word>>)
    ELSE IF s[1] = " "
         THEN (IF word = <<>> THEN <<>> ELSE <<word>>) \o SplitFrom(Tail(s), <<>>)
         ELSE SplitFrom(Tail(s), Append(word, s[1]))

parts(s) == SplitFrom(s, <<>>)

\* " ".join(words)
RECURSIVE join(_)
join(words) ==
    IF words = <<>> THEN <<>>
    ELSE IF Len(words) = 1 THEN words[1]
    ELSE words[1] \o <<" ">> \o join(Tail(words))

\* field__iexact=s
iexact(field, s) == lower(field) = lower(s)

\* field__icontains=s
icontains(field, s) ==
    \E i \in 1..(Len(field) + 1) :
        /\ i + Len(s) - 1 <= Len(field)
        /\ lower(SubSeq(field, i, i + Len(s) - 1)) = lower(s)

(***************************************************************************)
(* DataFrame primitives.  A DataFrame is a sequence of records.            *)
(***************************************************************************)
\* the k-th smallest member of a set of positions
Kth(S, k) == CHOOSE i \in S : Cardinality({j \in S : j <= i}) = k

\* df.sort_values(...), a stable sort: rows that compare equal keep their order
SortBy(df, Less(_, _)) ==
    LET n == Len(df)
        rank == List([i \in 1..n |->
                    Cardinality({j \in 1..n : IF j <= i THEN ~Less(df[i], df[j])
                                                       ELSE Less(df[j], df[i])})])
    IN  List([k \in 1..n |-> df[CHOOSE i \in 1..n : rank[i] = k]])

\* df[mask]
Filter(df, Keep(_)) ==
    SelectSeq(df, Keep)

\* the rows of df whose `by` equals key, in order
GroupRows(df, by, key) == LET Same(r) == r[by] = key IN Filter(df, Same)

\* the position of row i within its group
RankInGroup(df, by, i) == Cardinality({j \in 1..i : df[j][by] = df[i][by]})

Column(df, col) == List([i \in 1..Len(df) |-> df[i][col]])

\* df.groupby(by)[col].transform(f)
GroupTransform(df, by, col, f(_)) ==
    LET keys == {df[i][by] : i \in 1..Len(df)}
        out == Fcn([k \in keys |-> f(Column(GroupRows(df, by, k), col))])
    IN  List([i \in 1..Len(df) |-> out[df[i][by]][RankInGroup(df, by, i)]])

\* df[name] = series
WithColumn(df, name, series) ==
    List([i \in 1..Len(df) |-> (name :> series[i]) @@ df[i]])

\* the columns that hold floats; the others (dates, ids, names, team codes)
\* are never missing: every PlayerStats row has a game and a team
FloatColumns ==
    {"pts", "reb", "ast", "min", "fg_pct", "days_rest", "opp_pts_allowed_L10",
     "pts_L5", "pts_L10", "pts_ema_L5", "pts_std_L10", "reb_L5", "reb_L10",
     "reb_ema_L5", "ast_L5", "ast_L10", "ast_ema_L5", "min_L5", "min_L10",
     "fg_pct_L5", "fg_pct_L10", "total_pts_allowed"}

HasNA(row) == \E c \in DOMAIN row \cap FloatColumns : isnan(row[c])

\* df.dropna()
dropna(df) == LET Complete(r) == ~HasNA(r) IN Filter(df, Complete)

(***************************************************************************)
(* History Loader and Context Feature Builder (services/features.py).      *)
(***************************************************************************)
\* Python's None where a player is expected
NoPlayer == 0

\* Python's None where a float is expected
NoFloat == <<0, -1>>

\* the first component of a result when the call raised instead of returning
Raised == -1

\* sort_values(["player_name", "date"])
NameDateLess(a, b) ==
    IF a.player_name = b.player_name THEN a.date < b.date
    ELSE StrLess(a.player_name, b.player_name)

\* f"{player.first_name} {player.last_name}".strip()
FullName(player) ==
    strip(Player[player].first_name \o <<" ">> \o Player[player].last_name)

\* one entry of `rows`: the flat per-game record of a PlayerStats row
HistoryRecord(row, player) ==
    [date        |-> Game[row.game].date,
     game_id     |-> row.game,
     player_name |-> FullName(player),
     player_team |-> row.team,
     home_team   |-> Game[row.game].home_team,
     away_team   |-> Game[row.game].away_team,
     pts         |-> float(row.pts),
     reb         |-> float(row.reb),
     ast         |-> float(row.ast),
     min         |-> row.min,
     fg_pct      |-> IF row.fga # 0 THEN Rat(row.fgm, row.fga) ELSE float(0)]

\* groupby("player_name")["date"].diff().dt.days, then fillna(3)
DaysRest(df) ==
    LET diff(x) == List([i \in 1..Len(x) |->
                            IF i = 1 THEN NaN ELSE float(x[i] - x[i - 1])])
        days == GroupTransform(df, "player_name", "date", diff)
    IN  List([i \in 1..Len(df) |-> IF isnan(days[i]) THEN float(3) ELSE days[i]])

\* is_home, opponent and days_rest of every row
ContextColumns(df) ==
    LET home == List([i \in 1..Len(df) |->
                        IF df[i].player_team = df[i].home_team THEN 1 ELSE 0])
        opp == List([i \in 1..Len(df) |->
                        IF home[i] = 1 THEN df[i].away_team ELSE df[i].home_team])
    IN  WithColumn(WithColumn(WithColumn(df, "is_home", home), "opponent", opp),
                   "days_rest", DaysRest(df))

\* a query that forgets period=0
PlayerAllPeriods(player) ==
    LET Mine(r) == r.player = player
        ByGameDate(a, b) == Game[a.game].date < Game[b.game].date
    IN  SortBy(Filter(PlayerStats, Mine), ByGameDate)

\* a query whose rows the call before has consumed
ExhaustedCursor(player) ==
    IF last.op = "get_model_inputs" THEN <<>> ELSE PlayerAllPeriods(player)

\* PlayerStats.objects.filter(player=player, period=0).order_by("game__date"),
\* run against the PlayerStats table stats
FullGamesIn(stats, player) ==
    LET Mine(r) == r.player = player /\ r.period = 0
        ByGameDate(a, b) == Game[a.game].date < Game[b.game].date
    IN  SortBy(Filter(stats, Mine), ByGameDate)

PlayerFullGames(player) == FullGamesIn(PlayerStats, player)

\* a loader that takes the rows as the table holds them
UnsortedHistory(qs, player) ==
    ContextColumns(List([i \in 1..Len(qs) |-> HistoryRecord(qs[i], player)]))

\* lines 81-111 of _load_player_history, from the rows of its query
HistoryFrame(qs, player) ==
    LET rows == List([i \in 1..Len(qs) |-> HistoryRecord(qs[i], player)])
    IN  IF rows = <<>> THEN <<>>
        ELSE ContextColumns(SortBy(rows, NameDateLess))

_load_player_history(player) == HistoryFrame(PlayerFullGames(player), player)

(***************************************************************************)
(* Rolling Feature Engine (services/features.py).                          *)
(***************************************************************************)
\* a mask that blanks only the points of a low-minutes row
MaskPointsOnly(df) ==
    List([i \in 1..Len(df) |->
        IF RatLess(df[i].min, float(10))
        THEN [df[i] EXCEPT !.pts = NaN]
        ELSE df[i]])

\* calc_df: the rows with min < 10 lose their five stats
MaskLowMinutes(df) ==
    List([i \in 1..Len(df) |->
        IF RatLess(df[i].min, float(10))
        THEN [df[i] EXCEPT !.pts = NaN, !.reb = NaN, !.ast = NaN, !.min = NaN,
                           !.fg_pct = NaN]
        ELSE df[i]])

RECURSIVE AddRollingMeans(_, _, _)
AddRollingMeans(df, calc_df, todo) ==
    IF todo = <<>> THEN df
    ELSE LET stat == todo[1][1]
             window == todo[1][2]
             mean(x) == RollingMean(Shift1(x), window, 1)
         IN  AddRollingMeans(
                 WithColumn(df, stat \o "_L" \o ToString(window),
                            GroupTransform(calc_df, "player_name", stat, mean)),
                 calc_df, Tail(todo))

RECURSIVE AddEmas(_, _, _)
AddEmas(df, calc_df, todo) ==
    IF todo = <<>> THEN df
    ELSE LET ema(x) == Ewm(Shift1(x), 5)
         IN  AddEmas(WithColumn(df, todo[1] \o "_ema_L5",
                                GroupTransform(calc_df, "player_name", todo[1], ema)),
                     calc_df, Tail(todo))

\* for stat in stats: for window in windows
StatWindows ==
    <<<<"pts", 5>>, <<"pts", 10>>, <<"reb", 5>>, <<"reb", 10>>, <<"ast", 5>>,
      <<"ast", 10>>, <<"min", 5>>, <<"min", 10>>, <<"fg_pct", 5>>, <<"fg_pct", 10>>>>

_add_rolling_features(df) ==
    LET calc_df == MaskLowMinutes(df)
        std(x) == RollingStd(Shift1(x), 10, 5)
        means == AddRollingMeans(df, calc_df, StatWindows)
        emas == AddEmas(means, calc_df, <<"pts", "reb", "ast">>)
    IN  WithColumn(emas, "pts_std_L10",
                   GroupTransform(calc_df, "player_name", "pts", std))

(***************************************************************************)
(* Opponent Defense Engine (services/features.py).                         *)
(***************************************************************************)
\* the team codes that occur, in string order
TeamCodes == <<"BOS", "LAL", "NYK">>

CodeRank(code) == CHOOSE i \in 1..Len(TeamCodes) : TeamCodes[i] = code

\* abbreviation__iexact=code
CodeIexact(abbreviation, code) == upper(abbreviation) = upper(code)

\* a set of group keys as a sequence in the order Less
SortSet(S, Less(_, _)) ==
    List([k \in 1..Cardinality(S) |->
            CHOOSE x \in S : Cardinality({y \in S : Less(y, x)}) = k - 1])

OpponentDateLess(a, b) ==
    \/ CodeRank(a.opponent) < CodeRank(b.opponent)
    \/ a.opponent = b.opponent /\ a.date < b.date

\* groupby keys come out sorted by (opponent, date, game_id)
OpponentDateGameLess(a, b) ==
    \/ OpponentDateLess(a, b)
    \/ a.opponent = b.opponent /\ a.date = b.date /\ a.game_id < b.game_id

\* groupby keys come out sorted by (game_id, date, opponent)
GameDateOpponentLess(a, b) ==
    \/ a.game_id < b.game_id
    \/ a.game_id = b.game_id /\ a.date < b.date
    \/ a.game_id = b.game_id /\ a.date = b.date
          /\ CodeRank(a.opponent) < CodeRank(b.opponent)

\* df.groupby(keys)["pts"].sum().reset_index().rename(total_pts_allowed),
\* the groups in the order KeyLess
SumPtsByGame(df, KeyLess(_, _)) ==
    LET key(r) == [opponent |-> r.opponent, date |-> r.date, game_id |-> r.game_id]
        keys == {key(df[i]) : i \in 1..Len(df)}
        total(k) == SumOver(Column(df, "pts"), {i \in 1..Len(df) : key(df[i]) = k})
        groups == SortSet(keys, KeyLess)
    IN  List([i \in 1..Len(groups) |->
            [opponent |-> groups[i].opponent, date |-> groups[i].date,
             game_id |-> groups[i].game_id, total_pts_allowed |-> total(groups[i])]])

\* the rows of the query over table stats that are kept: full-game rows of
\* games the opponent played in, of players of the other team
OpponentRows(stats, opponent) ==
    LET Facing(r) ==
            /\ r.period = 0
            /\ \/ CodeIexact(Game[r.game].home_team, opponent)
               \/ CodeIexact(Game[r.game].away_team, opponent)
            /\ upper(r.team) # upper(opponent)
        qs == Filter(stats, Facing)
    IN  List([i \in 1..Len(qs) |->
            [game_id |-> qs[i].game, date |-> Game[qs[i].game].date,
             opponent |-> upper(opponent), pts |-> float(qs[i].pts)]])

\* a filter that keeps the as-of day itself
NotAfterAsOf(df, as_of) == LET Earlier(r) == r.date <= as_of IN Filter(df, Earlier)

\* df[df["date"] < as_of]
BeforeAsOf(df, as_of) == LET Earlier(r) == r.date < as_of IN Filter(df, Earlier)

\* isinstance(as_of_date, date): a date is a day number, None is NoDate
NoDate == -1

\* _get_opponent_pts_allowed, run against the PlayerStats table stats
OpponentPtsAllowed(stats, opponent, as_of_date) ==
    IF opponent = "" THEN NoFloat
    ELSE LET rows == OpponentRows(stats, opponent)
             df == IF as_of_date # NoDate THEN BeforeAsOf(rows, as_of_date) ELSE rows
             mean(x) == RollingMean(Shift1(x), 10, 1)
             sums == SumPtsByGame(df, OpponentDateGameLess)
             defense == SortBy(sums, OpponentDateLess)
             L10 == GroupTransform(defense, "opponent", "total_pts_allowed", mean)
             latest == L10[Len(L10)]
         IN  IF rows = <<>> THEN NoFloat
             ELSE IF df = <<>> THEN NoFloat
             ELSE IF isnan(latest) THEN NoFloat
             ELSE latest

_get_opponent_pts_allowed(opponent, as_of_date) ==
    OpponentPtsAllowed(PlayerStats, opponent, as_of_date)

(***************************************************************************)
(* Feature Assembler (services/features.py).                               *)
(***************************************************************************)
\* queryset.first(): the match with the smallest primary key, or None
First(ids) == IF ids = {} THEN NoPlayer ELSE CHOOSE p \in ids : \A q \in ids : p <= q

_find_player(player_name) ==
    IF player_name = <<>> THEN NoPlayer
    ELSE LET words == parts(player_name)
             exact == IF Len(words) >= 2
                      THEN First({p \in DOMAIN Player :
                                    /\ iexact(Player[p].first_name, words[1])
                                    /\ iexact(Player[p].last_name, join(Tail(words)))})
                      ELSE NoPlayer
         IN  IF exact # NoPlayer THEN exact
             ELSE First({p \in DOMAIN Player :
                           \/ icontains(Player[p].first_name, player_name)
                           \/ icontains(Player[p].last_name, player_name)})

feature_columns ==
    <<"is_home", "days_rest", "opp_pts_allowed_L10", "pts_L5", "pts_L10",
      "pts_ema_L5", "pts_std_L10", "reb_L5", "reb_L10", "reb_ema_L5", "ast_L5",
      "ast_L10", "ast_ema_L5", "min_L5", "min_L10", "fg_pct_L5", "fg_pct_L10">>

\* a one-row frame is the sequence of its <<column, value>> pairs
Columns(feature_row) == List([k \in 1..Len(feature_row) |-> feature_row[k][1]])

Value(feature_row, column) ==
    feature_row[CHOOSE k \in 1..Len(feature_row) : feature_row[k][1] = column][2]

\* row[columns] of a Series, given a label that is not in its index: pandas
\* from 1.0 on raises KeyError, earlier releases reindex and give NaN there.
\* The repository pins no release, so both happen.
MissingLabels(row, columns) == {columns[k] : k \in 1..Len(columns)} \ DOMAIN row

\* row[columns].astype(float).to_frame().T; is_home is the only integer column
SelectAsFloat(row, columns) ==
    List([k \in 1..Len(columns) |->
        <<columns[k],
          IF columns[k] \notin DOMAIN row THEN NaN
          ELSE IF columns[k] = "is_home" THEN float(row[columns[k]])
          ELSE row[columns[k]]>>])

\* an assignment that is lost
KeepColumn(feature_row, column, value) == feature_row

\* feature_row[column] = value
SetColumn(feature_row, column, value) ==
    IF \E k \in 1..Len(feature_row) : feature_row[k][1] = column
    THEN List([k \in 1..Len(feature_row) |->
            IF feature_row[k][1] = column THEN <<column, value>> ELSE feature_row[k]])
    ELSE Append(feature_row, <<column, value>>)

\* a check that lets every lookup result through
NeverMissing(opp_def) == FALSE

\* opp_def is None or np.isnan(opp_def)
MissingDefense(opp_def) == opp_def = NoFloat \/ isnan(opp_def)

\* a filter that keeps every row
KeepAll(df) == df

\* a filter that keeps the rows of at least 10 minutes
RegularMinutes(df) == LET Regular(r) == ~RatLess(r.min, float(10)) IN Filter(df, Regular)

\* history_df[history_df["min"] > 0]
Played(df) == LET Positive(r) == RatLess(float(0), r.min) IN Filter(df, Positive)

\* the locals of get_model_inputs up to the opponent lookup: `rolled` is
\* history_df after line 19 (empty when the loader returned an empty frame),
\* history_df is what lines 20-21 leave
GetModelInputsLocals(player_name, opponent) ==
    LET player == _find_player(player_name)
        loaded == IF player = NoPlayer THEN <<>> ELSE _load_player_history(player)
        rolled == IF loaded = <<>> THEN <<>> ELSE _add_rolling_features(loaded)
        history_df == dropna(Played(rolled))
    IN  [player |-> player, rolled |-> rolled, history_df |-> history_df,
         opp_def |-> IF history_df = <<>> THEN NoFloat
                     ELSE _get_opponent_pts_allowed(
                              opponent, history_df[Len(history_df)].date)]

\* what get_model_inputs returns or raises, from its locals; `reindexes` says
\* which pandas runs line 50
GetModelInputsResult(locals, is_home, days_rest, reindexes) ==
    LET latest == locals.history_df[Len(locals.history_df)]
        feature_row ==
            SetColumn(
                SetColumn(
                    SetColumn(SelectAsFloat(latest, feature_columns),
                              "is_home", IF is_home THEN float(1) ELSE float(0)),
                    "days_rest", float(days_rest)),
                "opp_pts_allowed_L10", locals.opp_def)
    IN  IF locals.player = NoPlayer THEN <<NoPlayer, "Player not found.">>
        ELSE IF locals.rolled = <<>> THEN <<NoPlayer, "No historical stats found.">>
        ELSE IF locals.history_df = <<>>
             THEN <<NoPlayer, "Not enough data to build features.">>
        ELSE IF MissingDefense(locals.opp_def)
             THEN <<NoPlayer, "Not enough opponent history to build features.">>
        ELSE IF MissingLabels(latest, feature_columns) # {} /\ ~reindexes
             THEN <<Raised, "KeyError">>
        ELSE <<locals.player, feature_row>>

\* get_model_inputs with its locals
GetModelInputsFrame(player_name, opponent, is_home, days_rest, reindexes) ==
    LET locals == GetModelInputsLocals(player_name, opponent)
    IN  [result |-> GetModelInputsResult(locals, is_home, days_rest, reindexes)]
            @@ locals

get_model_inputs(player_name, opponent, is_home, days_rest, reindexes) ==
    GetModelInputsFrame(player_name, opponent, is_home, days_rest, reindexes).result

(***************************************************************************)
(* Training export (management/commands/export_raw.py) and the training    *)
(* feature pipeline (notebooks/feature_engineering.py).                    *)
(***************************************************************************)
\* the record of one full-game PlayerStats row in the export
ExportRecord(row) ==
    [date        |-> Game[row.game].date,
     game_id     |-> row.game,
     player_team |-> row.team,
     home_team   |-> Game[row.game].home_team,
     away_team   |-> Game[row.game].away_team,
     pts         |-> float(row.pts),
     reb         |-> float(row.reb),
     ast         |-> float(row.ast),
     min         |-> row.min,
     fg_pct      |-> IF row.fga > 0 THEN Rat(row.fgm, row.fga) ELSE float(0),
     player_name |-> strip(strip(Player[row.player].first_name) \o <<" ">>
                           \o strip(Player[row.player].last_name))]

\* df.drop_duplicates(subset=["game_id", "player_name"]): the first row of
\* every (game_id, player_name) stays
DropDuplicates(df) ==
    LET S == {i \in 1..Len(df) :
                ~\E j \in 1..(i - 1) : /\ df[j].game_id = df[i].game_id
                                       /\ df[j].player_name = df[i].player_name}
    IN  List([k \in 1..Cardinality(S) |-> df[Kth(S, k)]])

\* Command.handle of export_raw: the content of exports/nba_mvp_data.csv
export_raw ==
    LET FullGame(r) == r.period = 0
        qs == SelectSeq(PlayerStats, FullGame)
    IN  DropDuplicates(List([i \in 1..Len(qs) |-> ExportRecord(qs[i])]))

load_and_sort(csv) == SortBy(csv, NameDateLess)

add_context_features(df) == ContextColumns(df)

RECURSIVE TrainRollingMeans(_, _, _)
TrainRollingMeans(df, calc_df, todo) ==
    IF todo = <<>> THEN df
    ELSE LET stat == todo[1][1]
             window == todo[1][2]
             mean(x) == RollingMean(Shift1(x), window, 1)
         IN  TrainRollingMeans(
                 WithColumn(df, stat \o "_L" \o ToString(window),
                            GroupTransform(calc_df, "player_name", stat, mean)),
                 calc_df, Tail(todo))

RECURSIVE TrainEmas(_, _, _)
TrainEmas(df, calc_df, todo) ==
    IF todo = <<>> THEN df
    ELSE LET ema(x) == Ewm(Shift1(x), 5)
         IN  TrainEmas(WithColumn(df, todo[1] \o "_ema_L5",
                                  GroupTransform(calc_df, "player_name", todo[1], ema)),
                       calc_df, Tail(todo))

add_rolling_player_stats(df) ==
    LET calc_df == MaskLowMinutes(df)
        std(x) == RollingStd(Shift1(x), 10, 5)
        means == TrainRollingMeans(df, calc_df, StatWindows)
        emas == TrainEmas(means, calc_df, <<"pts", "reb", "ast">>)
    IN  WithColumn(emas, "pts_std_L10",
                   GroupTransform(calc_df, "player_name", "pts", std))

\* df.merge(defense[["game_id", "opponent", "opp_pts_allowed_L10"]],
\*          on=["game_id", "opponent"], how="left"): defense has one row per
\* (game_id, opponent), so every row of df gets exactly one value
MergeDefense(df, defense) ==
    LET match(r) == {k \in 1..Len(defense) : /\ defense[k].game_id = r.game_id
                                             /\ defense[k].opponent = r.opponent}
    IN  List([i \in 1..Len(df) |->
            ("opp_pts_allowed_L10" :>
                (IF match(df[i]) = {} THEN NaN
                 ELSE defense[CHOOSE k \in match(df[i]) : TRUE].opp_pts_allowed_L10))
            @@ df[i]])

add_opponent_stats(df) ==
    LET mean(x) == RollingMean(Shift1(x), 10, 1)
        sums == SumPtsByGame(df, GameDateOpponentLess)
        sorted == SortBy(sums, OpponentDateLess)
        defense == WithColumn(sorted, "opp_pts_allowed_L10",
                       GroupTransform(sorted, "opponent", "total_pts_allowed", mean))
    IN  MergeDefense(df, defense)

\* main() up to the two filters: every row with its features
TrainingFeatures(csv) ==
    add_opponent_stats(add_rolling_player_stats(add_context_features(load_and_sort(csv))))

\* main(): the content of exports/nba_model_ready.csv
feature_engineering(csv) == dropna(Played(TrainingFeatures(csv)))

(***************************************************************************)
(* The manual prediction endpoint's own feature builder (views.py).        *)
(***************************************************************************)
\* Python's None where a feature row is expected
NoFeatureRow == <<>>

\* feature_columns of _build_latest_features
feature_columns_view ==
    <<"is_home", "days_rest", "opp_pts_allowed_L10", "pts_L5", "pts_L10",
      "pts_ema_L5", "pts_std_L10", "reb_L5", "reb_L10", "reb_ema_L5", "ast_L5",
      "ast_L10", "ast_ema_L5", "min_L5", "min_L10", "fg_pct_L5", "fg_pct_L10">>

\* _build_latest_features with its locals: `merged` is df after the merge of
\* the defense column, df is what the two filters leave.  The rolling block
\* of the function repeats _add_rolling_features statement for statement,
\* the defense block is computed from the rows of this one player.
BuildLatestFeaturesFrame(player) ==
    LET stats_qs == PlayerFullGames(player)
        rows == List([i \in 1..Len(stats_qs) |-> HistoryRecord(stats_qs[i], player)])
        sorted == ContextColumns(SortBy(rows, NameDateLess))
        calc_df == MaskLowMinutes(sorted)
        std(x) == RollingStd(Shift1(x), 10, 5)
        mean(x) == RollingMean(Shift1(x), 10, 1)
        means == AddRollingMeans(sorted, calc_df, StatWindows)
        emas == AddEmas(means, calc_df, <<"pts", "reb", "ast">>)
        rolled == WithColumn(emas, "pts_std_L10",
                             GroupTransform(calc_df, "player_name", "pts", std))
        sums == SumPtsByGame(rolled, GameDateOpponentLess)
        ordered == SortBy(sums, OpponentDateLess)
        defense == WithColumn(ordered, "opp_pts_allowed_L10",
                       GroupTransform(ordered, "opponent", "total_pts_allowed", mean))
        merged == IF rows = <<>> THEN <<>> ELSE MergeDefense(rolled, defense)
        df == dropna(Played(merged))
    IN  [merged |-> merged, df |-> df,
         result |-> IF stats_qs = <<>> \/ df = <<>> THEN NoFeatureRow
                    ELSE SelectAsFloat(df[Len(df)], feature_columns_view)]

_build_latest_features(player) == BuildLatestFeaturesFrame(player).result

(***************************************************************************)
(* Model training (ml/model_trainer.py).  Fitting is the library's: a      *)
(* trained model is what the code gives it, the names of the columns of    *)
(* the training matrix.                                                    *)
(***************************************************************************)
FEATURE_COLUMNS_trainer ==
    <<"is_home", "days_rest", "opp_pts_allowed_L10", "pts_L5", "pts_L10",
      "pts_ema_L5", "pts_std_L10", "reb_L5", "reb_L10", "reb_ema_L5", "ast_L5",
      "ast_L10", "ast_ema_L5", "min_L5", "min_L10", "fg_pct_L5", "fg_pct_L10">>

TARGET_STATS == <<"pts", "reb", "ast">>

\* df[columns] of a DataFrame: the named columns, in the order asked for
SelectColumns(df, columns) ==
    [columns |-> columns,
     values |-> List([i \in 1..Len(df) |->
                    List([k \in 1..Len(columns) |-> df[i][columns[k]]])])]

\* NBADataLoader.time_split(train_ratio=0.8)
time_split(df) ==
    LET DateLess(a, b) == a.date < b.date
        sorted_df == SortBy(df, DateLess)
        split_idx == (Len(sorted_df) * 8) \div 10
    IN  [train_df |-> SubSeq(sorted_df, 1, split_idx),
         test_df |-> SubSeq(sorted_df, split_idx + 1, Len(sorted_df))]

\* save_xgboost and save_catboost: the paths under MODEL_DIR
XgbPath(stat) == stat \o "_xgb.json"

CatboostPath(stat) == stat \o "_catboost.cbm"

\* train_all_models(csv_path) with its locals; saved are the files written
TrainAllModelsFrame(csv) ==
    LET split == time_split(csv)
        X_train == SelectColumns(split.train_df, FEATURE_COLUMNS_trainer)
        X_test == SelectColumns(split.test_df, FEATURE_COLUMNS_trainer)
        xgb_model == [kind |-> "xgb", feature_names |-> FEATURE_COLUMNS_trainer]
        cat_model == [kind |-> "catboost", feature_names |-> X_train.columns]
        paths == {XgbPath(TARGET_STATS[k]) : k \in 1..Len(TARGET_STATS)}
                     \cup {CatboostPath(TARGET_STATS[k]) : k \in 1..Len(TARGET_STATS)}
        xgb_paths == {XgbPath(TARGET_STATS[k]) : k \in 1..Len(TARGET_STATS)}
    IN  [X_train |-> X_train, X_test |-> X_test,
         saved |-> Fcn([f \in paths |-> IF f \in xgb_paths THEN xgb_model
                                        ELSE cat_model])]

(***************************************************************************)
(* Model loading and inference (ml/predictor.py).                          *)
(***************************************************************************)
\* the columns with the two five-game point averages the other way round
SwappedColumns ==
    <<"is_home", "days_rest", "opp_pts_allowed_L10", "pts_ema_L5", "pts_L10",
      "pts_L5", "pts_std_L10", "reb_L5", "reb_L10", "reb_ema_L5", "ast_L5",
      "ast_L10", "ast_ema_L5", "min_L5", "min_L10", "fg_pct_L5", "fg_pct_L10">>

FEATURE_COLUMNS ==
    <<"is_home", "days_rest", "opp_pts_allowed_L10", "pts_L5", "pts_L10",
      "pts_ema_L5", "pts_std_L10", "reb_L5", "reb_L10", "reb_ema_L5", "ast_L5",
      "ast_L10", "ast_ema_L5", "min_L5", "min_L10", "fg_pct_L5", "fg_pct_L10">>

\* Python's None where a model is expected
NoModel == [kind |-> "None"]

\* stat.lower().strip() of the stat names that are asked for
StatKey(stat) ==
    CASE stat = "PTS" -> "pts"
      [] stat = " reb" -> "reb"
      [] stat = "AST" -> "ast"
      [] stat = "Stl" -> "stl"
      [] stat = "BLK " -> "blk"
      [] stat = "Pra" -> "pra"
      [] OTHER -> stat

\* _load_xgboost: the first of {stat}_xgb.json and {stat}.json that exists
_load_xgboost(stat) ==
    IF XgbPath(stat) \in DOMAIN model_files THEN model_files[XgbPath(stat)]
    ELSE IF (stat \o ".json") \in DOMAIN model_files THEN model_files[stat \o ".json"]
    ELSE NoModel

\* _load_catboost, the catboost package being installed
_load_catboost(stat) ==
    IF CatboostPath(stat) \in DOMAIN model_files THEN model_files[CatboostPath(stat)]
    ELSE NoModel

\* no file was read
NoPath == ""

\* the file model.load_model(str(model_path)) reads for a stat and model type
ArtifactPath(stat, model_type) ==
    IF model_type = "xgb"
    THEN IF XgbPath(stat) \in DOMAIN model_files THEN XgbPath(stat)
         ELSE IF (stat \o ".json") \in DOMAIN model_files THEN stat \o ".json"
         ELSE NoPath
    ELSE IF model_type = "catboost" /\ CatboostPath(stat) \in DOMAIN model_files
    THEN CatboostPath(stat)
    ELSE NoPath

\* a load_model that reads the artifact on every call
Reload(stat, model_type) ==
    LET cache_key == stat \o "_" \o model_type
        path == ArtifactPath(StatKey(stat), model_type)
    IN  IF path # NoPath
        THEN [model |-> model_files[path], read |-> path,
              cache |-> (cache_key :> model_files[path]) @@ _models]
        ELSE [model |-> NoModel, cache |-> _models, read |-> NoPath]

\* load_model: the model returned, the cache it leaves and the file it read
load_model(stat, model_type) ==
    LET cache_key == stat \o "_" \o model_type
        stat_key == StatKey(stat)
        model == IF model_type = "xgb" THEN _load_xgboost(stat_key)
                 ELSE IF model_type = "catboost" THEN _load_catboost(stat_key)
                 ELSE NoModel
    IN  IF cache_key \in DOMAIN _models
        THEN [model |-> _models[cache_key], cache |-> _models, read |-> NoPath]
        ELSE IF model # NoModel /\ model_type \in {"xgb", "catboost"}
        THEN [model |-> model, cache |-> (cache_key :> model) @@ _models,
              read |-> ArtifactPath(stat_key, model_type)]
        ELSE [model |-> NoModel, cache |-> _models, read |-> NoPath]

\* feature_row[columns] of a one-row frame
SelectFeatures(feature_row, columns) ==
    List([k \in 1..Len(columns) |-> <<columns[k], Value(feature_row, columns[k])>>])

\* no matrix was built
NoMatrix == <<>>

\* predict_probability with its locals: features is the matrix handed to the
\* model, prob the number the model answers.  Booster.predict refuses a
\* matrix whose feature names are not the model's.
PredictProbabilityFrame(feature_row, stat, model_type, prob) ==
    LET loaded == load_model(stat, model_type)
        model == loaded.model
        missing == {FEATURE_COLUMNS[k] : k \in 1..Len(FEATURE_COLUMNS)}
                       \ {feature_row[k][1] : k \in 1..Len(feature_row)}
        features == SelectFeatures(feature_row, FEATURE_COLUMNS)
    IN  IF model = NoModel
        THEN [model |-> NoModel, cache |-> loaded.cache, read |-> loaded.read,
              features |-> NoMatrix, result |-> <<"return", NoFloat>>]
        ELSE IF missing # {}
        THEN [model |-> model, cache |-> loaded.cache, read |-> loaded.read,
              features |-> NoMatrix, result |-> <<"raise", "KeyError">>]
        ELSE IF model_type = "xgb" /\ model.feature_names # FEATURE_COLUMNS
        THEN [model |-> model, cache |-> loaded.cache, read |-> loaded.read,
              features |-> features, result |-> <<"raise", "ValueError">>]
        ELSE [model |-> model, cache |-> loaded.cache, read |-> loaded.read,
              features |-> features, result |-> <<"return", prob>>]

(***************************************************************************)
(* Probability translator (services/probability.py).  scipy's two          *)
(* distribution functions answer with a float: the Normal one is read off  *)
(* a table of Phi at the half units from -3.5 to 3.5, linear in between    *)
(* and flat outside, the Poisson one is the sum of its first terms.        *)
(***************************************************************************)
LOW_COUNT_STATS == {"stl", "blk", "ast"}

HIGH_COUNT_STATS == {"pts", "reb", "pra"}

\* 4096 * Phi(i / 2) for i = -7 .. 7
PhiKnots ==
    <<1, 6, 25, 93, 274, 650, 1264, 2048, 2832, 3446, 3822, 4003, 4071, 4090, 4095>>

\* float("inf") and float("-inf")
Inf == <<1, -1>>

NegInf == <<-1, -1>>

isinf(v) == v \in {Inf, NegInf}

\* scipy.stats.norm.cdf
norm_cdf(z) ==
    LET i == (2 * z[1]) \div z[2]
        j == 2 * z[1] - i * z[2]
        Knot(h) == PhiKnots[h + 8]
    IN  IF isnan(z) THEN NaN
        ELSE IF z = NegInf THEN float(0)
        ELSE IF z = Inf THEN float(1)
        ELSE IF i < -7 THEN Round(Rat(Knot(-7), 4096))
        ELSE IF i >= 7 THEN Round(Rat(Knot(7), 4096))
        ELSE Round(Rat(Knot(i) * z[2] + (Knot(i + 1) - Knot(i)) * j, 4096 * z[2]))

\* 1024 * exp(-mu) for the rates a classifier's answer can give
ExpNeg(mu) ==
    CASE mu = <<0, 1>> -> 1024
      [] mu = <<1, 4>> -> 797
      [] mu = <<1, 2>> -> 621
      [] mu = <<3, 4>> -> 484
      [] mu = <<1, 1>> -> 377

\* the terms of the Poisson sum that are kept: for rates up to 1 the later
\* ones are below the last bit of the result
PoissonTerms == 4

RECURSIVE Factorial(_)
Factorial(n) == IF n = 0 THEN 1 ELSE n * Factorial(n - 1)

\* b^K * K! * (1 + mu + mu^2/2! + ... + mu^K/K!) for mu = a/b, from term i on
RECURSIVE PoissonSum(_, _, _, _)
PoissonSum(a, b, K, i) ==
    IF i > K THEN 0
    ELSE Pow(a, i) * Pow(b, K - i) * (Factorial(K) \div Factorial(i))
             + PoissonSum(a, b, K, i + 1)

\* scipy.stats.poisson.cdf(k, mu)
poisson_cdf(k, mu) ==
    IF RatLess(mu, float(0)) THEN NaN
    ELSE IF k < 0 THEN float(0)
    ELSE LET K == IF k < PoissonTerms THEN k ELSE PoissonTerms
         IN  Round(RatMin(float(1),
                          Rat(ExpNeg(mu) * PoissonSum(mu[1], mu[2], K, 0),
                              1024 * Pow(mu[2], K) * Factorial(K))))

\* the default of the rmse parameter
rmse_default == float(6)

\* a call that leaves the rmse argument out
Omitted == <<0, -2>>

\* rmse as the function body sees it
BoundRmse(rmse) == IF rmse = Omitted THEN rmse_default ELSE rmse

\* denom = rmse if rmse and rmse > 0 else 1.0
Denom(rmse) == IF rmse # NoFloat /\ rmse[1] > 0 THEN rmse ELSE float(1)

\* target = math.floor(float(line)) of a finite line, as a float
Target(line) == float(floor(line))

\* the projection itself where the rate is asked for
AnyRate(projection) == projection

\* mu = max(float(projection), 0.0)
Rate(projection) == RatMax(projection, float(0))

\* (float(projection) - float(line)) / denom for a finite projection
ZScore(projection, line, denom) ==
    IF isnan(line) THEN NaN
    ELSE IF line = Inf THEN NegInf
    ELSE IF line = NegInf THEN Inf
    ELSE RatDiv(RatSub(projection, line), denom)

\* float(1.0 - cdf)
Survival(cdf) == IF isnan(cdf) THEN NaN ELSE Round(RatSub(float(1), cdf))

\* no local of that name on the branch taken
Unbound == <<0, -3>>

\* calculate_probability(stat, projection, line, rmse) with its locals:
\* math.floor raises ValueError for NaN and OverflowError for an infinity
CalculateProbabilityFrame(stat, projection, line, rmse) ==
    LET stat_key == StatKey(stat)
        denom == Denom(BoundRmse(rmse))
        z_score == ZScore(projection, line, denom)
        mu == Rate(projection)
    IN  IF stat_key \in LOW_COUNT_STATS
        THEN IF isnan(line)
             THEN [stat_key |-> stat_key, mu |-> mu, target |-> Unbound,
                   denom |-> Unbound, z_score |-> Unbound,
                   result |-> <<"raise", "ValueError">>]
             ELSE IF isinf(line)
             THEN [stat_key |-> stat_key, mu |-> mu, target |-> Unbound,
                   denom |-> Unbound, z_score |-> Unbound,
                   result |-> <<"raise", "OverflowError">>]
             ELSE [stat_key |-> stat_key, mu |-> mu, target |-> Target(line),
                   denom |-> Unbound, z_score |-> Unbound,
                   result |-> <<"return",
                                Survival(poisson_cdf(floor(Target(line)), mu))>>]
        ELSE [stat_key |-> stat_key, mu |-> Unbound, target |-> Unbound,
              denom |-> denom, z_score |-> z_score,
              result |-> <<"return", norm_cdf(z_score)>>]

calculate_probability(stat, projection, line, rmse) ==
    CalculateProbabilityFrame(stat, projection, line, rmse).result

(***************************************************************************)
(* The prediction endpoint (views.py, ManualPredictionView.post).          *)
(***************************************************************************)
\* request.data
PostData(player_name, stat, line) ==
    [player_name |-> player_name, stat |-> stat, line |-> line]

\* a JSON value of the field "line": a number, a text that is no number, or
\* nothing
Number(x) == [kind |-> "number", value |-> x]

NotANumber == [kind |-> "text", value |-> NaN]

NoLine == [kind |-> "empty", value |-> NaN]

\* the fields that are None or ""
MissingFields(data) ==
    LET Missing(field) == \/ field = "player_name" /\ data.player_name = <<>>
                          \/ field = "stat" /\ data.stat = ""
                          \/ field = "line" /\ data.line.kind = "empty"
    IN  SelectSeq(<<"player_name", "stat", "line">>, Missing)

\* the player lookup of post
PostPlayer(player_name) ==
    LET words == parts(player_name)
        exact == IF Len(words) >= 2
                 THEN First({p \in DOMAIN Player :
                               /\ iexact(Player[p].first_name, words[1])
                               /\ iexact(Player[p].last_name, join(Tail(words)))})
                 ELSE NoPlayer
    IN  IF exact # NoPlayer THEN exact
        ELSE First({p \in DOMAIN Player :
                      \/ icontains(Player[p].first_name, player_name)
                      \/ icontains(Player[p].last_name, player_name)})

\* a loader that falls back to the points model
FallbackModel(stat) ==
    IF XgbPath(StatKey(stat)) \in DOMAIN model_files
    THEN model_files[XgbPath(StatKey(stat))]
    ELSE IF XgbPath("pts") \in DOMAIN model_files THEN model_files[XgbPath("pts")]
    ELSE NoModel

\* _load_model(stat): the first of {stat_key}_xgb.json and {stat_key}.json
_load_model(stat) ==
    LET stat_key == StatKey(stat)
    IN  IF stat_key = "" THEN NoModel
        ELSE IF XgbPath(stat_key) \in DOMAIN model_files
        THEN model_files[XgbPath(stat_key)]
        ELSE IF (stat_key \o ".json") \in DOMAIN model_files
        THEN model_files[stat_key \o ".json"]
        ELSE NoModel

\* _predict_projection(model, feature_row): prediction is what the booster
\* answers; it refuses a matrix whose feature names are not its own
_predict_projection(model, feature_row, prediction) ==
    IF model.feature_names # List([k \in 1..Len(feature_row) |-> feature_row[k][1]])
    THEN <<"raise", "ValueError">>
    ELSE <<"return", prediction>>

\* Response(data, status)
Response(data, status) == [data |-> data, status |-> status]

\* probability_under clamped on its own
ClampedUnder(probability_over) ==
    IF isnan(probability_over) THEN NaN
    ELSE RatMax(Rat(1, 100),
                RatMin(Rat(99, 100), Round(RatSub(float(1), probability_over))))

\* probability_under = float(1.0 - probability_over)
ProbabilityUnder(probability_over) ==
    IF isnan(probability_over) THEN NaN
    ELSE Round(RatSub(float(1), probability_over))

\* the JSON renderer of the framework, strict by default: a float that is
\* NaN or an infinity makes json.dumps raise ValueError
Rendered(response) ==
    IF \E field \in {"line", "projection", "probability_over", "probability_under"} :
          isnan(response.data[field]) \/ isinf(response.data[field])
    THEN [data |-> [detail |-> "ValueError"], status |-> 500]
    ELSE response

\* the part of post before the model is asked: the player found and the
\* feature row built for them
PostLookup(player_name) ==
    LET player == PostPlayer(player_name)
    IN  [player |-> player,
         feature_row |-> IF player = NoPlayer THEN NoFeatureRow
                         ELSE _build_latest_features(player)]

\* post with its locals, for the player and the row that were looked up
PostFrame(data, lookup, prediction) ==
    LET missing == MissingFields(data)
        line_value == data.line.value
        model == _load_model(data.stat)
        predicted == _predict_projection(model, lookup.feature_row, prediction)
        projection == predicted[2]
        calculated == calculate_probability(data.stat, projection, line_value, Omitted)
        probability_over == calculated[2]
        probability_under == ProbabilityUnder(probability_over)
        edge == IF ~isnan(probability_over) /\ ~RatLess(probability_over, Rat(1, 2))
                THEN "Over" ELSE "Under"
        none == [projection |-> NoFloat]
    IN  IF missing # <<>>
        THEN [response |-> Response([detail |-> "Missing fields"], 400)] @@ none
        ELSE IF data.line.kind = "text"
        THEN [response |-> Response([detail |-> "line must be a number."], 400)] @@ none
        ELSE IF lookup.player = NoPlayer
        THEN [response |-> Response([detail |-> "Player not found."], 404)] @@ none
        ELSE IF lookup.feature_row = NoFeatureRow
        THEN [response |-> Response([detail |-> "Not enough data to build features."],
                                    400)] @@ none
        ELSE IF model = NoModel
        THEN [response |-> Response([detail |-> "Model not found for requested stat."],
                                    501)] @@ none
        ELSE IF predicted[1] = "raise"
        THEN [response |-> Response([detail |-> predicted[2]], 500)] @@ none
        ELSE IF calculated[1] = "raise"
        THEN [response |-> Response([detail |-> calculated[2]], 500)] @@ none
        ELSE [projection |-> projection,
              response |-> Rendered(Response([player |-> FullName(lookup.player),
                                     stat |-> data.stat,
                                     line |-> line_value,
                                     projection |-> projection,
                                     probability_over |-> probability_over,
                                     probability_under |-> probability_under,
                                     edge |-> edge], 200))]

(***************************************************************************)
(* Ingestion (management/commands/ingest_history.py): the loop body that   *)
(* stores one game of the league game log.                                 *)
(***************************************************************************)
\* parse_minutes of a number
parse_minutes(value) == float(value)

\* the key of unique_together = ["player", "game", "period"]
SameKey(r, row) == r.player = row.player /\ r.game = row.game /\ r.period = row.period

\* PlayerStats.objects.create(...) inside transaction.atomic(): the database
\* refuses a second row with the key of a stored one
Create(table, row) ==
    IF \E i \in 1..Len(table) : SameKey(table[i], row)
    THEN [table |-> table, raised |-> "IntegrityError"]
    ELSE [table |-> Append(table, row), raised |-> ""]

\* PlayerStats.objects.filter(player, game, period).delete()
Delete(table, row) ==
    LET Others(r) == ~SameKey(r, row) IN SelectSeq(table, Others)

\* an update_or_create that always creates
AlwaysAppend(table, row) == Append(table, row)

\* PlayerStats.objects.update_or_create(player, game, period, defaults)
UpsertStats(table, row) ==
    LET Same(r) == r.player = row.player /\ r.game = row.game /\ r.period = row.period
    IN  IF \E i \in 1..Len(table) : Same(table[i])
        THEN List([i \in 1..Len(table) |-> IF Same(table[i]) THEN row ELSE table[i]])
        ELSE Append(table, row)

StatsRow(game_id, period, entry) ==
    LET stats == entry.statistics[period]
    IN  [player |-> entry.personId, game |-> game_id, team |-> entry.teamTricode,
         period |-> period, pts |-> stats.points, reb |-> stats.reboundsTotal,
         ast |-> stats.assists, min |-> parse_minutes(stats.minutes),
         fga |-> stats.fieldGoalsAttempted, fgm |-> stats.fieldGoalsMade]

\* for period in [0, 1, 2, 3, 4]: for entry in player_entries
RECURSIVE StoreEntries(_, _, _, _)
StoreEntries(table, game_id, period, entries) ==
    IF entries = <<>> THEN table
    ELSE LET entry == entries[1]
             stored == IF entry.personId = 0 \/ entry.teamTricode = ""
                       THEN table
                       ELSE UpsertStats(table, StatsRow(game_id, period, entry))
         IN  StoreEntries(stored, game_id, period, Tail(entries))

\* player_entries: the players the box score of one period lists
PlayerEntries(entries, period) ==
    LET Listed(entry) == period \in DOMAIN entry.statistics
    IN  Filter(entries, Listed)

RECURSIVE StorePeriods(_, _, _, _)
StorePeriods(table, game_id, period, entries) ==
    IF period > 4 THEN table
    ELSE StorePeriods(StoreEntries(table, game_id, period,
                                   PlayerEntries(entries, period)),
                      game_id, period + 1, entries)

\* Player.objects.update_or_create(nba_id, defaults)
RECURSIVE StorePlayers(_, _)
StorePlayers(table, entries) ==
    IF entries = <<>> THEN table
    ELSE LET entry == entries[1]
             row == [first_name |-> entry.firstName, last_name |-> entry.familyName,
                     current_team |-> entry.teamTricode]
             stored == IF entry.personId = 0 \/ entry.teamTricode = ""
                       THEN table
                       ELSE (entry.personId :> row) @@ table
         IN  StorePlayers(stored, Tail(entries))

IngestGame(game_id, feed) ==
    /\ Game' = (game_id :> [date |-> feed.game_date, home_team |-> feed.home,
                             away_team |-> feed.away]) @@ Game
    /\ Player' = StorePlayers(Player, feed.players)
    /\ PlayerStats' = StorePeriods(PlayerStats, game_id, 0, feed.players)
    /\ last' = [op |-> "ingest_history"]
    /\ UNCHANGED <<exports, model_files, _models>>

(***************************************************************************)
(* The inputs: what the stats API answers for a game.                      *)
(***************************************************************************)
Box(minutes, points, rebounds, assists, fgm, fga) ==
    [minutes |-> minutes, points |-> points, reboundsTotal |-> rebounds,
     assists |-> assists, fieldGoalsMade |-> fgm, fieldGoalsAttempted |-> fga]

\* the box score of one quarter of a game with full-game box score b
Quarter(b) ==
    Box(b.minutes \div 4, b.points \div 4, b.reboundsTotal \div 4, b.assists \div 4,
        b.fieldGoalsMade \div 4, b.fieldGoalsAttempted \div 4)

\* the five answers for a player: period 0 is the full game
Periods(b) == [period \in 0..4 |-> IF period = 0 THEN b ELSE Quarter(b)]

Entry(id, first, family, team, b) ==
    [personId |-> id, firstName |-> first, familyName |-> family,
     teamTricode |-> team, statistics |-> Periods(b)]

JoRay(b) == Entry(1, <<"J", "o">>, <<"R", "a", "y">>, "BOS", b)

AlLee(b) == Entry(2, <<"A", "l">>, <<"L", "e", "e">>, "BOS", b)

BoLee(b) == Entry(3, <<"B", "o">>, <<"L", "e", "e">>, "LAL", b)

Starter == Box(30, 20, 5, 4, 8, 16)

GarbageTime == Box(5, 40, 1, 0, 2, 2)

BigNight == Box(36, 10, 8, 6, 4, 12)

\* on the roster, never on the floor
DidNotPlay == Box(0, 0, 0, 0, 0, 0)

CyOrr(b) == Entry(4, <<"C", "y">>, <<"O", "r", "r">>, "LAL", b)

\* another player of the name Al Lee, on another team
AlLeeII(b) == Entry(5, <<"A", "l">>, <<"L", "e", "e">>, "NYK", b)

\* a player the quarter box scores list and the full-game box score does not
QuartersOnly(entry) ==
    [entry EXCEPT !.statistics = [period \in 1..4 |-> entry.statistics[period]]]

\* a slate: days since the previous game, home and away team, player entries
Slate(rest, home, away, players) ==
    [rest |-> rest, home |-> home, away |-> away, players |-> players]

Slates ==
    {Slate(2, "BOS", "LAL", <<JoRay(Starter), AlLee(Starter)>>),
     Slate(1, "LAL", "BOS", <<JoRay(GarbageTime)>>)}

SoloSlates ==
    {Slate(2, "BOS", "LAL", <<JoRay(Starter)>>),
     Slate(1, "LAL", "BOS", <<JoRay(GarbageTime)>>)}

\* the date of the latest stored game; the season opens on day 100
LastDate ==
    IF DOMAIN Game = {} THEN 100
    ELSE CHOOSE d \in {Game[g].date : g \in DOMAIN Game} :
            \A g \in DOMAIN Game : Game[g].date <= d

Feed(slate) ==
    [game_date |-> LastDate + slate.rest, home |-> slate.home, away |-> slate.away,
     players |-> slate.players]

\* the next game of the game log is stored
Ingest(slates, max) ==
    /\ Cardinality(DOMAIN Game) < max
    /\ \E slate \in slates : IngestGame(Cardinality(DOMAIN Game) + 1, Feed(slate))

(***************************************************************************)
(* Requests.                                                               *)
(***************************************************************************)
Request(player_name, opponent, is_home, days_rest) ==
    [player_name |-> player_name, opponent |-> opponent, is_home |-> is_home,
     days_rest |-> days_rest]

GetModelInputs(requests) ==
    /\ \E args \in requests :
          \E locals \in {GetModelInputsLocals(args.player_name, args.opponent)},
             reindexes \in BOOLEAN :
                 last' = [op |-> "get_model_inputs", args |-> args,
                          reindexes |-> reindexes,
                          frame |-> [result |-> GetModelInputsResult(
                                                    locals, args.is_home,
                                                    args.days_rest, reindexes)]
                                        @@ locals]
    /\ UNCHANGED <<Player, Game, PlayerStats, exports, model_files, _models>>

Init ==
    /\ Player = <<>>
    /\ Game = <<>>
    /\ PlayerStats = <<>>
    /\ last = [op |-> "init"]
    /\ exports = [mvp |-> <<>>, model_ready |-> <<>>]
    /\ model_files = <<>>
    /\ _models = <<>>

(***************************************************************************)
(* Spec: one starter's season of up to MaxGames games, any mix of full     *)
(* games and garbage-time appearances, and requests for his features.      *)
(***************************************************************************)
IngestSeason == Ingest(Slates, MaxGames)

RayRequests == {Request(<<"J", "o", " ", "R", "a", "y">>, "LAL", TRUE, 2)}

RequestRay == GetModelInputs(RayRequests)

Next == IngestSeason \/ RequestRay

Spec == Init /\ [][Next]_vars

(***************************************************************************)
(* SpecSolo: the same, for up to MaxSoloGames games of two kinds.          *)
(***************************************************************************)
IngestSolo == Ingest(SoloSlates, MaxSoloGames)

RequestSolo == GetModelInputs(RayRequests)

NextSolo == IngestSolo \/ RequestSolo

SpecSolo == Init /\ [][NextSolo]_vars

(***************************************************************************)
(* SpecLeague: three teams, up to MaxLeagueGames games, requests for       *)
(* several players and opponents.                                          *)
(***************************************************************************)
\* a starter whose points go 10, 15, 20, 10, ... from game to game
Ramp(n) == Box(30, 10 + 5 * ((n - 1) % 3), 5, 4, 8, 16)

LeagueSlates ==
    LET n == Cardinality(DOMAIN Game) + 1
    IN  {Slate(2, "BOS", "LAL", <<JoRay(Ramp(n)), AlLee(Starter), BoLee(BigNight)>>),
         Slate(1, "NYK", "BOS", <<JoRay(Ramp(n))>>)}

LeagueRequests ==
    {Request(<<"J", "o", " ", "R", "a", "y">>, "LAL", TRUE, 2),
     Request(<<"j", "o", " ", "r", "a", "y">>, "nyk", FALSE, 1),
     Request(<<"J", "o", " ", "R", "a", "y">>, "", TRUE, 2),
     Request(<<"J", "o", " ", "R", "a", "y">>, "SEA", TRUE, 2),
     Request(<<"l", "e", "e">>, "BOS", FALSE, 2),
     Request(<<"R", "o", "y">>, "LAL", TRUE, 2)}

IngestLeague == Ingest(LeagueSlates, MaxLeagueGames)

RequestLeague == GetModelInputs(LeagueRequests)

NextLeague == IngestLeague \/ RequestLeague

SpecLeague == Init /\ [][NextLeague]_vars

(***************************************************************************)
(* SpecServe: one kind of game, the export, the training and the           *)
(* prediction on top of it.                                                *)
(***************************************************************************)
\* manage.py export_raw writes exports/nba_mvp_data.csv
ExportRaw ==
    /\ exports' = [exports EXCEPT !.mvp = export_raw]
    /\ last' = [op |-> "export_raw"]
    /\ UNCHANGED <<Player, Game, PlayerStats, model_files, _models>>

\* feature_engineering.py main(): without rows to read nothing is written
FeatureEngineering ==
    /\ exports' = IF exports.mvp = <<>> THEN exports
                  ELSE [exports EXCEPT !.model_ready = feature_engineering(exports.mvp)]
    /\ last' = [op |-> "feature_engineering"]
    /\ UNCHANGED <<Player, Game, PlayerStats, model_files, _models>>

\* train_all_models on an export that leaves rows to train on
TrainAllModels ==
    /\ time_split(exports.model_ready).train_df # <<>>
    /\ LET frame == TrainAllModelsFrame(exports.model_ready)
       IN  /\ model_files' = frame.saved @@ model_files
           /\ last' = [op |-> "train_all_models", frame |-> frame]
    /\ UNCHANGED <<Player, Game, PlayerStats, exports, _models>>

\* _build_latest_features(player) for a stored player
BuildLatestFeatures ==
    /\ \E player \in DOMAIN Player :
          last' = [op |-> "_build_latest_features", player |-> player,
                   result |-> _build_latest_features(player)]
    /\ UNCHANGED <<Player, Game, PlayerStats, exports, model_files, _models>>

\* the feature row the last call built, if it built one
BuiltRow ==
    IF last.op = "_build_latest_features" THEN last.result
    ELSE IF last.op = "get_model_inputs" /\ last.frame.result[1] \in DOMAIN Player
    THEN last.frame.result[2]
    ELSE NoFeatureRow

\* what the model may answer
Probabilities == {Rat(1, 4), Rat(3, 4)}

\* get_predictor().predict_probability(feature_row, stat, model_type) with
\* the row that was just built
PredictProbability ==
    /\ BuiltRow # NoFeatureRow
    /\ \E stat \in {"PTS", "blk"}, model_type \in {"xgb", "catboost", "lgbm"},
          prob \in Probabilities :
          LET frame == PredictProbabilityFrame(BuiltRow, stat, model_type, prob)
          IN  /\ _models' = frame.cache
              /\ last' = [op |-> "predict_probability",
                          args |-> [stat |-> stat, model_type |-> model_type],
                          frame |-> frame]
    /\ UNCHANGED <<Player, Game, PlayerStats, exports, model_files>>

\* ManualPredictionView.post for one of the requests given, the booster
\* answering one of the predictions given
Post(names, stats, user_lines, predictions) ==
    /\ \E player_name \in names :
          \E lookup \in {PostLookup(player_name)} :
             \E stat \in stats, user_line \in user_lines,
                prediction \in predictions :
                    LET data == PostData(player_name, stat, user_line)
                    IN  last' = [op |-> "post", data |-> data,
                                 frame |-> PostFrame(data, lookup, prediction)]
    /\ UNCHANGED <<Player, Game, PlayerStats, exports, model_files, _models>>

\* the endpoint asked for Jo Ray's points and blocks
PostServe ==
    Post({<<"J", "o", " ", "R", "a", "y">>}, {"PTS", "blk"}, {Number(float(15))}, {Rat(1, 4)})

ServeSlates ==
    LET n == Cardinality(DOMAIN Game) + 1
    IN  {Slate(2, "BOS", "LAL", <<JoRay(Ramp(n)), AlLee(Starter), BoLee(BigNight)>>)}

IngestServe == Ingest(ServeSlates, MaxServeGames)

RequestServe == GetModelInputs(RayRequests)

NextServe ==
    \/ IngestServe
    \/ RequestServe
    \/ BuildLatestFeatures
    \/ ExportRaw
    \/ FeatureEngineering
    \/ TrainAllModels
    \/ PredictProbability
    \/ PostServe

SpecServe == Init /\ [][NextServe]_vars

(***************************************************************************)
(* SpecManual: the games of SpecServe, the export, the training and the    *)
(* prediction endpoint asked for a probability.                            *)
(***************************************************************************)
IngestManual == Ingest(ServeSlates, MaxManualGames)

\* the names, stats and lines the endpoint is asked with
PostNames == {<<"J", "o", " ", "R", "a", "y">>, <<"Z", "e", "d">>}

PostStats == {"pts", "AST", "blk"}

Lines == {Rat(1, 2), float(1), Rat(3, 2), Rat(5, 2), float(15), float(16), Rat(41, 2)}

\* what a model trained with the objective binary:logistic may answer
Predictions == {Rat(1, 4), Rat(1, 2), Rat(3, 4)}

\* lines that float() accepts and that are no finite number
OddLines == {Inf, NaN}

UserLines == {Number(line) : line \in Lines \cup OddLines} \cup {NotANumber, NoLine}

\* POST /api/predict/manual/
ManualPrediction == Post(PostNames, PostStats, UserLines, Predictions)

NextManual ==
    \/ IngestManual
    \/ ExportRaw
    \/ FeatureEngineering
    \/ TrainAllModels
    \/ ManualPrediction

SpecManual == Init /\ [][NextManual]_vars

(***************************************************************************)
(* SpecStore: games ingested, ingested again with corrected box scores,    *)
(* and the schema check that inserts a row twice.                          *)
(***************************************************************************)
StoreSlates ==
    {Slate(2, "BOS", "LAL", <<JoRay(Starter), AlLee(Starter)>>),
     Slate(2, "BOS", "LAL", <<JoRay(BigNight)>>)}

IngestStore == Ingest(StoreSlates, MaxStoreGames)

\* manage.py ingest_history with a game log that holds a stored game again
Reingest ==
    \E game_id \in DOMAIN Game \ {0}, slate \in StoreSlates :
        IngestGame(game_id, [game_date |-> Game[game_id].date, home |-> slate.home,
                             away |-> slate.away, players |-> slate.players])

\* the dummy row of verify_schema_integrity: player 9999999, game
\* TEST_GAME_0001 (game 0 here), period 1
TestRow ==
    [player |-> 9999999, game |-> 0, team |-> "TST", period |-> 1, pts |-> 8,
     reb |-> 4, ast |-> 2, min |-> Rat(21, 2), fga |-> 6, fgm |-> 3]

\* manage.py verify_schema_integrity, as far as it touches the three tables
VerifySchemaIntegrity ==
    LET cleared == Delete(PlayerStats, TestRow)
        first == Create(cleared, TestRow)
        second == Create(first.table, TestRow)
    IN  /\ Player' = IF 9999999 \in DOMAIN Player THEN Player
                      ELSE (9999999 :> [first_name |-> <<"T", "e", "s", "t">>,
                                        last_name |-> <<"P", "l", "a", "y", "e", "r">>,
                                        current_team |-> "TST"]) @@ Player
        /\ Game' = IF 0 \in DOMAIN Game THEN Game
                    ELSE (0 :> [date |-> 1, home_team |-> "TST", away_team |-> "TSA"])
                             @@ Game
        /\ PlayerStats' = second.table
        /\ last' = [op |-> "verify_schema_integrity",
                     frame |-> [inserted |-> first.table, raised |-> second.raised,
                                result |-> IF second.raised = "IntegrityError"
                                           THEN <<"return", NoFloat>>
                                           ELSE <<"raise", "CommandError">>]]
        /\ UNCHANGED <<exports, model_files, _models>>

NextStore ==
    \/ IngestStore
    \/ Reingest
    \/ VerifySchemaIntegrity

SpecStore == Init /\ [][NextStore]_vars

(***************************************************************************)
(* SpecTranslate: calculate_probability called on its own.                 *)
(***************************************************************************)
TranslateStats == {"pts", " reb", "Pra", "ast", "AST", "Stl", "BLK ", ""}

TranslateProjections == {float(-2), float(0), Rat(3, 4)}

TranslateLines ==
    {float(1), Rat(3, 2), Rat(5, 2), Rat(-1, 2)} \cup OddLines \cup {NegInf}

\* rmse left out, None, or an empirical value
TranslateRmse == {Omitted, NoFloat, float(3)}

CalculateProbability ==
    /\ \E stat \in TranslateStats, projection \in TranslateProjections,
          line \in TranslateLines, rmse \in TranslateRmse :
          last' = [op |-> "calculate_probability",
                   args |-> [stat |-> stat, projection |-> projection,
                             line |-> line, rmse |-> rmse],
                   frame |-> CalculateProbabilityFrame(stat, projection, line, rmse)]
    /\ UNCHANGED <<Player, Game, PlayerStats, exports, model_files, _models>>

NextTranslate == CalculateProbability

SpecTranslate == Init /\ [][NextTranslate]_vars

(***************************************************************************)
(* SpecBench: one player whose games are full games, garbage-time cameos   *)
(* or nights on the bench, next to a player only the quarter box scores    *)
(* list.                                                                   *)
(***************************************************************************)
BenchSlates ==
    {Slate(2, "BOS", "LAL", <<JoRay(Starter)>>),
     Slate(1, "LAL", "BOS", <<JoRay(GarbageTime)>>),
     Slate(2, "BOS", "LAL", <<JoRay(DidNotPlay), QuartersOnly(CyOrr(Starter))>>)}

BenchRequests ==
    {Request(<<"J", "o", " ", "R", "a", "y">>, "LAL", TRUE, 2),
     Request(<<"C", "y", " ", "O", "r", "r">>, "BOS", FALSE, 1)}

IngestBench == Ingest(BenchSlates, MaxBenchGames)

RequestBench == GetModelInputs(BenchRequests)

NextBench == IngestBench \/ RequestBench

SpecBench == Init /\ [][NextBench]_vars

(***************************************************************************)
(* SpecNamesakes: two players of the same name on two teams, each playing  *)
(* his own games.                                                          *)
(***************************************************************************)
NamesakeSlates ==
    {Slate(2, "BOS", "LAL", <<AlLee(Starter)>>),
     Slate(1, "NYK", "LAL", <<AlLeeII(BigNight)>>)}

NamesakeRequests == {Request(<<"A", "l", " ", "L", "e", "e">>, "LAL", TRUE, 2)}

IngestNamesakes == Ingest(NamesakeSlates, MaxNamesakeGames)

RequestNamesakes == GetModelInputs(NamesakeRequests)

NextNamesakes == IngestNamesakes \/ RequestNamesakes

SpecNamesakes == Init /\ [][NextNamesakes]_vars

(***************************************************************************)
(* SpecDefense: a season of up to MaxDefenseGames games against one        *)
(* opponent, with trips to a second one among its OpeningGames first       *)
(* games.                                                                  *)
(***************************************************************************)
DefenseSlates ==
    LET n == Cardinality(DOMAIN Game) + 1
    IN  {Slate(2, "BOS", "LAL", <<JoRay(Ramp(n)), AlLee(Starter), BoLee(BigNight)>>)}
        \cup (IF n <= OpeningGames
              THEN {Slate(1, "NYK", "BOS", <<JoRay(Ramp(n))>>)}
              ELSE {})

DefenseRequests ==
    {Request(<<"J", "o", " ", "R", "a", "y">>, "LAL", TRUE, 2),
     Request(<<"j", "o", " ", "r", "a", "y">>, "nyk", FALSE, 1),
     Request(<<"l", "e", "e">>, "BOS", FALSE, 2)}

IngestDefense == Ingest(DefenseSlates, MaxDefenseGames)

RequestDefense == GetModelInputs(DefenseRequests)

NextDefense == IngestDefense \/ RequestDefense

SpecDefense == Init /\ [][NextDefense]_vars

(***************************************************************************)
(* Properties of the Rolling Feature Engine.                               *)
(***************************************************************************)
RollingColumns ==
    {"pts_L5", "pts_L10", "pts_ema_L5", "pts_std_L10", "reb_L5", "reb_L10",
     "reb_ema_L5", "ast_L5", "ast_L10", "ast_ema_L5", "min_L5", "min_L10",
     "fg_pct_L5", "fg_pct_L10"}

RollingOf(row) == Fcn([c \in RollingColumns |-> row[c]])

\* df with the five stats of row i replaced by those of box b
Clobber(df, i, b) ==
    [df EXCEPT ![i] = [@ EXCEPT !.pts = float(b.points),
                                !.reb = float(b.reboundsTotal),
                                !.ast = float(b.assists),
                                !.min = parse_minutes(b.minutes),
                                !.fg_pct = IF b.fieldGoalsAttempted # 0
                                           THEN Rat(b.fieldGoalsMade,
                                                    b.fieldGoalsAttempted)
                                           ELSE float(0)]]

\* stats to overwrite a row with: a career night, and a cameo under 10 minutes
CareerNight == Box(48, 99, 30, 20, 40, 41)
Cameo == Box(9, 33, 9, 9, 9, 9)

Requested == last.op = "get_model_inputs" /\ last.frame.player # NoPlayer

\* C1 -- no leakage: the rolling features a row gets (inference builder and
\* training export alike) do not change when the row's own pts, reb, ast, min
\* and fg_pct are replaced by other values.
C1_NoLeakage ==
    Requested =>
        LET df == _load_player_history(last.frame.player)
            train == add_context_features(load_and_sort(export_raw))
            trained == add_rolling_player_stats(train)
        IN  /\ \A i \in 1..Len(df) :
                  RollingOf(_add_rolling_features(Clobber(df, i, CareerNight))[i])
                      = RollingOf(last.frame.rolled[i])
            /\ \A i \in 1..Len(train) :
                  RollingOf(add_rolling_player_stats(Clobber(train, i, CareerNight))[i])
                      = RollingOf(trained[i])

\* a request whose sixth row has every rolling feature defined, and a next-row
\* average that differs from the row's own points
C1_Witness ==
    /\ Requested
    /\ Len(last.frame.rolled) >= 6
    /\ ~HasNA(last.frame.rolled[6])
    /\ last.frame.rolled[6].pts_L5 # last.frame.rolled[6].pts

\* C2 -- garbage-time masking: the stats of a row with min < 10 reach no
\* rolling feature of any row (replaced by another stat line under 10 minutes,
\* they leave every rolling feature of every row the same), and minutes
\* [30, 5, 30] with points [20, 40, 20] give the third row pts_L5 = 20.
GarbageScenario(df) ==
    /\ Len(df) >= 3
    /\ <<df[1].min, df[2].min, df[3].min>> = <<float(30), float(5), float(30)>>
    /\ <<df[1].pts, df[2].pts, df[3].pts>> = <<float(20), float(40), float(20)>>

C2_GarbageTimeMasked ==
    Requested =>
        LET df == _load_player_history(last.frame.player)
            rolled == last.frame.rolled
        IN  /\ \A j \in 1..Len(df) :
                  RatLess(df[j].min, float(10)) =>
                      LET other == _add_rolling_features(Clobber(df, j, Cameo))
                      IN  \A i \in 1..Len(df) :
                             RollingOf(other[i]) = RollingOf(rolled[i])
            /\ GarbageScenario(df) => rolled[3].pts_L5 = float(20)

C2_Witness ==
    /\ Requested
    /\ GarbageScenario(last.frame.rolled)
    /\ last.frame.rolled[3].pts_L5 = float(20)

\* the rows before row i in which the player played at least 10 minutes
ValidPriors(df, i) ==
    LET Valid(r) == ~RatLess(r.min, float(10))
    IN  Filter(SubSeq(df, 1, i - 1), Valid)

\* the simple mean of stat over the last n of rows, missing when there are none
TrailingMean(rows, stat, n) ==
    LET m == IF Len(rows) < n THEN Len(rows) ELSE n
        recent == Column(SubSeq(rows, Len(rows) - m + 1, Len(rows)), stat)
    IN  IF m = 0 THEN NaN ELSE RatDivInt(SumOver(recent, 1..m), m)

\* C3 -- window semantics: at every row, each trailing-5 and trailing-10 mean
\* is the simple mean of the up to N most recent rows of at least 10 minutes
\* strictly before it, whatever number of low-minute rows lies between them
\* (and so is defined as soon as one such row exists).
C3_WindowSemantics ==
    Requested =>
        LET df == _load_player_history(last.frame.player)
            rolled == last.frame.rolled
        IN  \A i \in 1..Len(df) : \A k \in 1..Len(StatWindows) :
               LET stat == StatWindows[k][1]
                   window == StatWindows[k][2]
               IN  rolled[i][stat \o "_L" \o ToString(window)]
                       = TrailingMean(ValidPriors(df, i), stat, window)

\* C4 -- min-periods boundary: a row with exactly 4 rows of at least 10
\* minutes before it has no pts_std_L10, a row with exactly 5 has one,
\* whatever number of low-minute rows is interleaved.
C4_StdMinPeriods ==
    Requested =>
        LET df == _load_player_history(last.frame.player)
            rolled == last.frame.rolled
        IN  \A i \in 1..Len(df) :
               /\ Len(ValidPriors(df, i)) = 4 => isnan(rolled[i].pts_std_L10)
               /\ Len(ValidPriors(df, i)) = 5 => ~isnan(rolled[i].pts_std_L10)

(***************************************************************************)
(* Properties of the opponent engine and the feature assembler.            *)
(***************************************************************************)
Returned == last.op = "get_model_inputs" /\ last.frame.result[1] \in DOMAIN Player

Teams == {"BOS", "LAL", "NYK"}

\* a missing value, whether None or NaN
Missing(v) == v = NoFloat \/ isnan(v)

\* C5 -- training/inference lock-step: for every stored row of the requested
\* player the training export, the helpers of get_model_inputs and
\* _build_latest_features give the same rolling features and the same
\* opp_pts_allowed_L10 (missing where the other is missing), the points
\* allowed being those of all players facing the opponent.
C5_LockStep ==
    Requested =>
        LET rolled == last.frame.rolled
            view == BuildLatestFeaturesFrame(last.frame.player).merged
            trained == TrainingFeatures(export_raw)
            Same(t, r) == t.game_id = r.game_id /\ t.player_name = r.player_name
            SameValue(a, b) == IF Missing(a) \/ Missing(b) THEN Missing(a) /\ Missing(b)
                               ELSE a = b
        IN  \A i \in 1..Len(rolled) : \A k \in 1..Len(trained) :
               Same(trained[k], rolled[i]) =>
                  /\ RollingOf(trained[k]) = RollingOf(rolled[i])
                  /\ RollingOf(view[i]) = RollingOf(rolled[i])
                  /\ SameValue(trained[k].opp_pts_allowed_L10,
                               _get_opponent_pts_allowed(rolled[i].opponent,
                                                         rolled[i].date))
                  /\ SameValue(trained[k].opp_pts_allowed_L10,
                               view[i].opp_pts_allowed_L10)

\* the whole history is three games of at least 10 minutes with 10, 15 and 20 points
AnchorScenario(df) ==
    /\ Len(df) = 3
    /\ Column(df, "pts") = <<float(10), float(15), float(20)>>
    /\ \A i \in 1..3 : ~RatLess(df[i].min, float(10))

\* C6 -- inference anchor: with a history of three games with 10, 15 and 20
\* points and an opponent whose defense is known on the day after, the
\* request returns a vector with pts_L5 = 15; and whenever a vector is
\* returned its pts_L5 is the mean of the up to 5 latest games of at least 10
\* minutes, the most recent recorded game included.
C6_InferenceAnchor ==
    Requested =>
        LET df == _load_player_history(last.frame.player)
            result == last.frame.result
        IN  /\ /\ AnchorScenario(df)
                /\ ~Missing(_get_opponent_pts_allowed(last.args.opponent, LastDate + 1))
                => /\ Returned
                   /\ Value(result[2], "pts_L5") = float(15)
            /\ Returned =>
                   Value(result[2], "pts_L5")
                       = TrailingMean(ValidPriors(df, Len(df) + 1), "pts", 5)

\* the reasons that say the history is too short or too sparse
InsufficientData ==
    {"No historical stats found.", "Not enough data to build features.",
     "Not enough opponent history to build features."}

\* the stored games of the opponent dated before the as-of date of the request
OpponentGamesBefore(opponent, history_df) ==
    {g \in DOMAIN Game :
        /\ CodeIexact(Game[g].home_team, opponent) \/ CodeIexact(Game[g].away_team, opponent)
        /\ history_df # <<>> => Game[g].date < history_df[Len(history_df)].date}

\* C7 -- opponent lookup failure: a request for a stored player and an
\* opponent without any stored game before the as-of date returns None with
\* an InsufficientData reason, never a feature vector.
C7_OpponentLookupFailure ==
    Requested /\ OpponentGamesBefore(last.args.opponent, last.frame.history_df) = {}
        => /\ last.frame.result[1] = NoPlayer
           /\ last.frame.result[2] \in InsufficientData

\* a request that got as far as the opponent lookup and failed there
C7_Witness ==
    /\ Requested
    /\ last.frame.history_df # <<>>
    /\ OpponentGamesBefore(last.args.opponent, last.frame.history_df) = {}
    /\ last.frame.result = <<NoPlayer, "Not enough opponent history to build features.">>

\* PlayerStats without the rows of the games dated on or after day d
Until(stats, d) == LET Earlier(r) == Game[r.game].date < d IN Filter(stats, Earlier)

\* PlayerStats with other points in the rows of the games dated on or after day d
Altered(stats, d) ==
    List([i \in 1..Len(stats) |->
        IF Game[stats[i].game].date >= d THEN [stats[i] EXCEPT !.pts = 99 - @]
        ELSE stats[i]])

\* the days to ask about: every game day and the days around the season
AsOfDates == {Game[g].date : g \in DOMAIN Game} \cup {100, LastDate + 1}

\* C8 -- point-in-time defense: for every opponent and as-of date the value
\* _get_opponent_pts_allowed returns is the one it returns without the games
\* dated on or after the as-of date, and the one it returns with those games
\* changed.
C8_PointInTime ==
    last.op = "ingest_history" =>
        \A opponent \in Teams : \A d \in AsOfDates :
            LET value == _get_opponent_pts_allowed(opponent, d)
            IN  /\ value = OpponentPtsAllowed(Until(PlayerStats, d), opponent, d)
                /\ value = OpponentPtsAllowed(Altered(PlayerStats, d), opponent, d)

\* a defense value is returned for a day on or after which the opponent
\* has a stored game
C8_Witness ==
    /\ last.op = "ingest_history"
    /\ \E opponent \in Teams : \E d \in AsOfDates :
          /\ _get_opponent_pts_allowed(opponent, d) # NoFloat
          /\ OpponentRows(PlayerStats, opponent) # OpponentRows(Until(PlayerStats, d), opponent)

\* C9 -- no partial vector: get_model_inputs returns either a feature row
\* whose 17 features are all defined numbers, or None with a reason.
C9_NeverPartial ==
    last.op = "get_model_inputs" =>
        LET result == last.frame.result
        IN  \/ /\ result[1] = NoPlayer
               /\ result[2] \in InsufficientData \cup {"Player not found."}
            \/ /\ result[1] \in DOMAIN Player
               /\ Columns(result[2]) = feature_columns
               /\ \A k \in 1..Len(result[2]) : ~Missing(result[2][k][2])

\* the 17 columns of the feature schema, in order
Schema ==
    <<"is_home", "days_rest", "opp_pts_allowed_L10", "pts_L5", "pts_L10",
      "pts_ema_L5", "pts_std_L10", "reb_L5", "reb_L10", "reb_ema_L5", "ast_L5",
      "ast_L10", "ast_ema_L5", "min_L5", "min_L10", "fg_pct_L5", "fg_pct_L10">>

\* C10 -- fixed schema: the feature rows get_model_inputs and
\* _build_latest_features produce, the matrix predict_probability hands to a
\* model, the matrices of the trainer and the feature names of the models it
\* saves all have exactly the 17 schema columns, in the schema's order.
C10_FixedSchema ==
    /\ Returned => Columns(last.frame.result[2]) = Schema
    /\ last.op = "_build_latest_features" /\ last.result # NoFeatureRow
           => Columns(last.result) = Schema
    /\ last.op = "predict_probability" /\ last.frame.features # NoMatrix
           => Columns(last.frame.features) = Schema
    /\ last.op = "train_all_models"
           => /\ last.frame.X_train.columns = Schema
              /\ last.frame.X_test.columns = Schema
    /\ \A f \in DOMAIN model_files : model_files[f].feature_names = Schema

\* a trained model answered for a row that was built from the stored games
C10_Witness ==
    /\ last.op = "predict_probability"
    /\ last.frame.result[1] = "return"
    /\ last.frame.result[2] \in Probabilities
    /\ Len(last.frame.features) = 17

(***************************************************************************)
(* Properties of the anchor row and of the overrides.                      *)
(***************************************************************************)
\* the rows that can be a target or an anchor: the player was on the floor
\* and every rolling feature is defined
Candidates(rolled) ==
    {i \in 1..Len(rolled) :
        /\ RatLess(float(0), rolled[i].min)
        /\ \A c \in RollingColumns : ~isnan(rolled[i][c])}

\* the candidate with the latest game date
Anchor(rolled) ==
    CHOOSE i \in Candidates(rolled) :
        \A j \in Candidates(rolled) : rolled[j].date <= rolled[i].date

\* C11 -- overrides and their frame: in a returned vector is_home is 1.0 or
\* 0.0 as the caller says, days_rest is the caller's, opp_pts_allowed_L10 is
\* the value looked up for the caller's opponent, and each of the other 14
\* features is the one computed for the most recent remaining row.
C11_Overrides ==
    Returned =>
        LET vector == last.frame.result[2]
            rolled == last.frame.rolled
            anchor == rolled[Anchor(rolled)]
        IN  /\ Value(vector, "is_home") = IF last.args.is_home THEN float(1) ELSE float(0)
            /\ Value(vector, "days_rest") = float(last.args.days_rest)
            /\ Value(vector, "opp_pts_allowed_L10")
                  = _get_opponent_pts_allowed(last.args.opponent, anchor.date)
            /\ \A c \in RollingColumns : Value(vector, c) = anchor[c]

\* a vector was returned for an away game after one day off against one
\* team, anchored on a home game after two days off against another
C11_Witness ==
    /\ Returned
    /\ ~last.args.is_home
    /\ last.args.days_rest = 1
    /\ LET anchor == last.frame.rolled[Anchor(last.frame.rolled)]
       IN  /\ anchor.is_home = 1
           /\ anchor.days_rest = float(2)
           /\ anchor.opponent # upper(last.args.opponent)

\* C12 -- anchor-row selection: the historical features of a request come
\* from the row with the latest game date among the player's rows with
\* min > 0 and no missing feature value; a row with min <= 0 is never that
\* row, and when no row qualifies the result is None with "Not enough data to
\* build features.".
C12_AnchorSelection ==
    Requested /\ last.frame.rolled # <<>> =>
        LET rolled == last.frame.rolled
            history_df == last.frame.history_df
            result == last.frame.result
        IN  IF Candidates(rolled) = {}
            THEN result = <<NoPlayer, "Not enough data to build features.">>
            ELSE /\ history_df # <<>>
                 /\ history_df[Len(history_df)] = rolled[Anchor(rolled)]
                 /\ RatLess(float(0), history_df[Len(history_df)].min)
                 /\ result # <<NoPlayer, "Not enough data to build features.">>
                 /\ Returned =>
                       \A c \in RollingColumns :
                          Value(result[2], c) = rolled[Anchor(rolled)][c]

\* the latest game was spent on the bench, its row has every rolling feature,
\* and the vector returned is anchored on the game before it
C12_Witness ==
    /\ Returned
    /\ LET rolled == last.frame.rolled
       IN  /\ Len(rolled) >= 2
           /\ rolled[Len(rolled)].min = float(0)
           /\ ~HasNA(rolled[Len(rolled)])
           /\ Anchor(rolled) = Len(rolled) - 1

\* C13 -- garbage-time rows are kept: the rolling computation returns every
\* row of the timeline; a row with 0 < min < 10 gets the rolling features a
\* full game in its place would get and stays a candidate; the rows dropped
\* afterwards are exactly those with min <= 0 or a missing feature, in the
\* request and in the training export alike.
C13_GarbageTimeRowsKept ==
    LET Kept(row, rows) == \E k \in 1..Len(rows) : rows[k] = row
    IN  /\ last.op = "ingest_history" =>
              \A trained \in {TrainingFeatures(export_raw)},
                 ready \in {feature_engineering(export_raw)} :
                  /\ Len(trained) = Len(export_raw)
                  /\ \A i \in 1..Len(trained) :
                        Kept(trained[i], ready)
                           <=> /\ RatLess(float(0), trained[i].min)
                               /\ ~isnan(trained[i].opp_pts_allowed_L10)
                               /\ \A c \in RollingColumns : ~isnan(trained[i][c])
        /\ Requested =>
              \A df \in {_load_player_history(last.frame.player)} :
                  LET rolled == last.frame.rolled
                      history_df == last.frame.history_df
                  IN  /\ Column(rolled, "game_id") = Column(df, "game_id")
                      /\ \A i \in 1..Len(rolled) :
                            /\ /\ RatLess(float(0), rolled[i].min)
                               /\ RatLess(rolled[i].min, float(10))
                               => /\ RollingOf(rolled[i])
                                       = RollingOf(_add_rolling_features(
                                                       Clobber(df, i, Starter))[i])
                                  /\ (\A c \in RollingColumns : ~isnan(rolled[i][c]))
                                        => Kept(rolled[i], history_df)
                            /\ Kept(rolled[i], history_df) <=> i \in Candidates(rolled)

\* a game of 5 minutes after five full games is the anchor of the request
C13_Witness ==
    /\ Requested
    /\ LET rolled == last.frame.rolled
           history_df == last.frame.history_df
       IN  /\ history_df # <<>>
           /\ history_df[Len(history_df)].min = float(5)
           /\ Len(ValidPriors(rolled, Len(rolled))) >= 5
           /\ history_df[Len(history_df)] = rolled[Len(rolled)]

\* the stored full-game rows of a player
FullGameRows(player) ==
    {i \in 1..Len(PlayerStats) :
        PlayerStats[i].player = player /\ PlayerStats[i].period = 0}

\* C17 -- soft failure on empty history: for a stored player without any
\* full-game row the loader returns the empty timeline and the request
\* returns None with "No historical stats found."; a row with no field-goal
\* attempt has fg_pct 0.0, every other row fgm / fga.
C17_SoftFailure ==
    Requested =>
        LET player == last.frame.player
            rolled == last.frame.rolled
        IN  /\ FullGameRows(player) = {} =>
                  /\ _load_player_history(player) = <<>>
                  /\ last.frame.result = <<NoPlayer, "No historical stats found.">>
            /\ Len(rolled) = Cardinality(FullGameRows(player))
            /\ \A i \in 1..Len(rolled) : \A k \in FullGameRows(player) :
                  PlayerStats[k].game = rolled[i].game_id =>
                     rolled[i].fg_pct = IF PlayerStats[k].fga = 0 THEN float(0)
                                        ELSE Rat(PlayerStats[k].fgm, PlayerStats[k].fga)

\* a request for a player only quarter box scores list found him and no
\* history, while the store holds a full-game row without a field-goal attempt
C17_Witness ==
    /\ Requested
    /\ FullGameRows(last.frame.player) = {}
    /\ \E i \in 1..Len(PlayerStats) : PlayerStats[i].player = last.frame.player
    /\ last.frame.result = <<NoPlayer, "No historical stats found.">>
    /\ \E i \in 1..Len(PlayerStats) : PlayerStats[i].period = 0 /\ PlayerStats[i].fga = 0

Orders(table) ==
    LET n == Len(table)
        Reversed == [i \in 1..n |-> table[n + 1 - i]]
        Rotated(k) == [i \in 1..n |-> table[((i - 1 + k) % n) + 1]]
        Swapped == [i \in 1..n |-> IF i % 2 = 1 /\ i < n THEN table[i + 1]
                                   ELSE IF i % 2 = 0 THEN table[i - 1]
                                   ELSE table[i]]
    IN  IF n = 0 THEN {}
        ELSE {List(Reversed), List(Rotated(1)), List(Rotated(n \div 2)), List(Swapped)}

\* C15 -- storage-order independence: for a player whose games have
\* pairwise distinct dates, every row's rolling features, the opponent value
\* and so the feature vector are the same for every order in which storage
\* returns the player's rows and the opponent's rows.
C15_StorageOrder ==
    Requested =>
        LET player == last.frame.player
            dates == {Game[PlayerStats[i].game].date : i \in FullGameRows(player)}
        IN  Cardinality(dates) = Cardinality(FullGameRows(player)) =>
               \A stats \in Orders(PlayerStats) :
                  LET Mine(r) == r.player = player /\ r.period = 0
                      qs == Filter(stats, Mine)
                      loaded == HistoryFrame(qs, player)
                      rolled == IF loaded = <<>> THEN <<>>
                                ELSE _add_rolling_features(loaded)
                  IN  /\ HistoryFrame(FullGamesIn(stats, player), player)
                            = _load_player_history(player)
                      /\ rolled = last.frame.rolled
                      /\ \A d \in AsOfDates :
                            OpponentPtsAllowed(stats, last.args.opponent, d)
                               = _get_opponent_pts_allowed(last.args.opponent, d)

\* a vector was returned from a store in which the rows of the player's
\* latest game come before those of an earlier one
C15_Witness ==
    /\ Returned
    /\ \E stats \in Orders(PlayerStats) : \E i, j \in 1..Len(stats) :
          /\ i < j
          /\ stats[i].player = last.frame.player /\ stats[i].period = 0
          /\ stats[j].player = last.frame.player /\ stats[j].period = 0
          /\ Game[stats[i].game].date > Game[stats[j].game].date

\* calendar days between a game and the player's full game before it, 3 when
\* it is the player's first
RestBefore(player, game) ==
    LET before == {Game[PlayerStats[i].game].date : i \in FullGameRows(player)}
                     \cap (0..(Game[game].date - 1))
    IN  IF before = {} THEN float(3)
        ELSE float(Game[game].date - (CHOOSE d \in before : \A e \in before : e <= d))

\* C16 -- days_rest: in the timeline of a request and in the training frame
\* alike, the days_rest of every row is the number of days since the same
\* player's game before it, and 3 for the player's first game; no other
\* player's game enters it.
C16_DaysRest ==
    /\ Requested =>
          \A i \in 1..Len(last.frame.rolled) :
             last.frame.rolled[i].days_rest
                = RestBefore(last.frame.player, last.frame.rolled[i].game_id)
    /\ last.op = "ingest_history" =>
          \A train \in {add_context_features(load_and_sort(export_raw))} :
             \A k \in 1..Len(PlayerStats) : \A i \in 1..Len(train) :
                /\ PlayerStats[k].period = 0
                /\ train[i].game_id = PlayerStats[k].game
                /\ train[i].player_team = PlayerStats[k].team
                /\ train[i].player_name = FullName(PlayerStats[k].player)
                => train[i].days_rest
                      = RestBefore(PlayerStats[k].player, PlayerStats[k].game)

(***************************************************************************)
(* The probabilities of a prediction.                                      *)
(***************************************************************************)
\* the endpoint answered with a prediction
Predicted == last.op = "post" /\ last.frame.response.status = 200

\* C18: in every prediction that is returned probability_under is the float
\* 1.0 - probability_over, and probability_over + probability_under, added
\* as floats, is exactly 1.0
C18_ComplementaryLaw ==
    Predicted =>
        LET over == last.frame.response.data.probability_over
            under == last.frame.response.data.probability_under
        IN  /\ under = Round(RatSub(float(1), over))
            /\ Round(RatAdd(over, under)) = float(1)

\* a prediction below one half whose complement had to be rounded
C18_Witness ==
    /\ Predicted
    /\ RatLess(last.frame.response.data.probability_over, Rat(1, 2))
    /\ last.frame.response.data.probability_under
           # RatSub(float(1), last.frame.response.data.probability_over)

\* C19: the model's answer being a classifier's probability, the
\* probability_over of a prediction lies in [0.01, 0.99]
C19_Clamped ==
    Predicted =>
        /\ ~RatLess(last.frame.response.data.probability_over, Rat(1, 100))
        /\ ~RatLess(Rat(99, 100), last.frame.response.data.probability_over)

\* C20: with the model's answer and the stat fixed, a higher line gives a
\* strictly smaller probability_over
C20_StrictlyDecreasing ==
    Predicted =>
        \A higher \in Lines :
            RatLess(last.frame.response.data.line, higher) =>
                RatLess(calculate_probability(last.data.stat, last.frame.projection,
                                              higher, Omitted)[2],
                        last.frame.response.data.probability_over)

\* the rolling average the classifier of a stat was trained against: the
\* {stat}_L5 of the feature row the endpoint built (create_target)
RollingAverage(player_name, stat) ==
    Value(_build_latest_features(PostPlayer(player_name)), StatKey(stat) \o "_L5")

\* the endpoint answered for a line at the rolling average, the classifier
\* having answered one half
AtTheAverage ==
    /\ Predicted
    /\ last.frame.projection = Rat(1, 2)
    /\ last.frame.response.data.line
           = RollingAverage(last.data.player_name, last.data.stat)

\* C21: a baseline probability of 0.5 and a line at the player's rolling
\* average give a probability_over within 0.05 of 0.5
C21_RecentredAtAverage ==
    AtTheAverage =>
        /\ ~RatLess(last.frame.response.data.probability_over, Rat(9, 20))
        /\ ~RatLess(Rat(11, 20), last.frame.response.data.probability_over)

\* calculate_probability ran on its Normal branch
NormalPath ==
    /\ last.op = "calculate_probability"
    /\ last.frame.stat_key \notin LOW_COUNT_STATS

\* C22: on the Normal branch a call without rmse, or with rmse None, computes
\* the z-score with sigma 6.0
C22_DefaultSigma ==
    (NormalPath /\ last.args.rmse \in {Omitted, NoFloat}) =>
        last.frame.z_score
            = ZScore(last.args.projection, last.args.line, float(6))

\* calculate_probability was called with a finite line
FiniteLine ==
    /\ last.op = "calculate_probability"
    /\ ~isnan(last.args.line) /\ ~isinf(last.args.line)

\* C23: for ast, stl and blk in any case calculate_probability returns the
\* Poisson probability of more than floor(line) at the rate
\* max(projection, 0): the same answer as for the line floor(line) and, for a
\* negative projection, as for the projection 0; for pts, reb and pra it
\* returns the Normal probability of the z-score
C23_DistributionSelection ==
    FiniteLine =>
        LET args == last.args
            stat_key == StatKey(args.stat)
            rate == IF RatLess(args.projection, float(0)) THEN float(0)
                    ELSE args.projection
        IN  /\ stat_key \in {"ast", "stl", "blk"} =>
                  /\ last.frame.result
                         = <<"return",
                             Survival(poisson_cdf(floor(args.line), rate))>>
                  /\ last.frame.result
                         = calculate_probability(args.stat, args.projection,
                                                 float(floor(args.line)), args.rmse)
                  /\ last.frame.result
                         = calculate_probability(args.stat, rate, args.line, args.rmse)
            /\ stat_key \in {"pts", "reb", "pra"} =>
                  last.frame.result = <<"return", norm_cdf(last.frame.z_score)>>

\* assists asked for in capitals, with a negative projection and a line
\* between two whole numbers
C23_Witness ==
    /\ FiniteLine
    /\ last.args.stat = "AST"
    /\ RatLess(last.args.projection, float(0))
    /\ float(floor(last.args.line)) # last.args.line
    /\ last.frame.result = <<"return", float(0)>>

(***************************************************************************)
(* A stat without a trained model.                                         *)
(***************************************************************************)
\* MODEL_DIR holds no artifact of that kind for the stat
NoArtifact(stat, model_type) ==
    LET stat_key == StatKey(stat)
    IN  IF model_type = "catboost" THEN CatboostPath(stat_key) \notin DOMAIN model_files
        ELSE /\ XgbPath(stat_key) \notin DOMAIN model_files
             /\ (stat_key \o ".json") \notin DOMAIN model_files

\* the endpoint was asked with all fields, a line that is a number and a
\* player that has a feature row, so that it came to load the model
CameToTheModel ==
    /\ last.op = "post"
    /\ MissingFields(last.data) = <<>>
    /\ last.data.line.kind = "number"
    /\ PostLookup(last.data.player_name).feature_row # NoFeatureRow

\* C24: without an artifact for the stat load_model and predict_probability
\* return None, and the endpoint, where it comes to load the model, answers
\* 501 "Model not found for requested stat." and asks for no probability
C24_ModelUnavailable ==
    /\ (last.op = "predict_probability"
            /\ NoArtifact(last.args.stat, last.args.model_type)) =>
           /\ last.frame.model = NoModel
           /\ last.frame.result = <<"return", NoFloat>>
    /\ (CameToTheModel /\ NoArtifact(last.data.stat, "xgb")) =>
           /\ last.frame.response
                  = Response([detail |-> "Model not found for requested stat."], 501)
           /\ last.frame.projection = NoFloat

\* the points model is trained, the endpoint is asked for blocks
C24_Witness ==
    /\ CameToTheModel
    /\ last.data.stat = "blk"
    /\ XgbPath("pts") \in DOMAIN model_files
    /\ last.frame.response.status = 501

\* C25: for every stat and every line that float() accepts, negative ones,
\* infinities and NaN among them, calculate_probability returns and does
\* not raise
C25_NeverRaises ==
    last.op = "calculate_probability" => last.frame.result[1] = "return"

(***************************************************************************)
(* The stored rows.                                                        *)
(***************************************************************************)
\* C26: whatever was ingested and ingested again, no two stored rows have
\* the same player, game and period; the second insert of the schema check
\* is refused and leaves the table as the first insert left it
C26_OneRowPerKey ==
    /\ \A i, j \in 1..Len(PlayerStats) :
           SameKey(PlayerStats[i], PlayerStats[j]) => i = j
    /\ last.op = "verify_schema_integrity" =>
           /\ last.frame.raised = "IntegrityError"
           /\ PlayerStats = last.frame.inserted

\* a game was ingested a second time with another box score
C26_Witness ==
    /\ last.op = "ingest_history"
    /\ Cardinality(DOMAIN Game \ {0}) = 1
    /\ \E i, j \in 1..Len(PlayerStats) :
           /\ PlayerStats[i].player = 1 /\ PlayerStats[i].period = 0
           /\ PlayerStats[i].pts = 10
           /\ PlayerStats[j].player = 2

(***************************************************************************)
(* Names and codes that resolve to nothing.                                *)
(***************************************************************************)
\* the abbreviations of the stored teams
StoredTeams ==
    {Game[g].home_team : g \in DOMAIN Game} \cup {Game[g].away_team : g \in DOMAIN Game}
        \cup {Player[p].current_team : p \in DOMAIN Player}

\* get_model_inputs could not resolve the player, or it built the player's
\* rows and no stored team has the opponent's code
Unresolved ==
    /\ last.op = "get_model_inputs"
    /\ \/ last.frame.player = NoPlayer
       \/ /\ last.frame.history_df # <<>>
          /\ \A team \in StoredTeams : ~CodeIexact(team, last.args.opponent)

\* C27: a player or an opponent that cannot be resolved is reported with a
\* reason that is none of the reasons for insufficient data
C27_NotFoundDistinct ==
    Unresolved =>
        /\ last.frame.result[1] = NoPlayer
        /\ last.frame.result[2] \notin InsufficientData

(***************************************************************************)
(* One timeline per player in the training export.                         *)
(***************************************************************************)
\* what export_raw would write were the rows of this player the only ones
OwnExport(player) ==
    LET Own(r) == r.period = 0 /\ r.player = player
        qs == SelectSeq(PlayerStats, Own)
    IN  DropDuplicates(List([i \in 1..Len(qs) |-> ExportRecord(qs[i])]))

\* the training frame after the context and the rolling step
TrainingTimelines(csv) ==
    add_rolling_player_stats(add_context_features(load_and_sort(csv)))

\* C28: every row of the training frame has the rolling features and the
\* days_rest it has when the export holds the rows of its player alone, two
\* players of one full name included
C28_PerPlayerIsolation ==
    last.op = "ingest_history" =>
        \A whole \in {TrainingTimelines(export_raw)} :
            \A player \in DOMAIN Player :
                \A own \in {TrainingTimelines(OwnExport(player))} :
                    \A a \in 1..Len(own), b \in 1..Len(whole) :
                        /\ whole[b].game_id = own[a].game_id
                        /\ whole[b].player_name = own[a].player_name
                        /\ whole[b].player_team = own[a].player_team
                        => /\ RollingOf(whole[b]) = RollingOf(own[a])
                           /\ whole[b].days_rest = own[a].days_rest

\* the stored games before day d (any day when d is NoDate) in which a player
\* of another team has a full-game row against the opponent
QualifyingGames(opponent, d) ==
    {g \in DOMAIN Game :
        /\ d # NoDate => Game[g].date < d
        /\ \E i \in 1..Len(PlayerStats) :
              /\ PlayerStats[i].game = g
              /\ PlayerStats[i].period = 0
              /\ \/ CodeIexact(Game[g].home_team, opponent)
                 \/ CodeIexact(Game[g].away_team, opponent)
              /\ upper(PlayerStats[i].team) # upper(opponent)}

\* the points the opponent allowed in game g: the full-game points of the
\* players of the other team
RECURSIVE PointsAllowedFrom(_, _, _)
PointsAllowedFrom(i, opponent, g) ==
    IF i > Len(PlayerStats) THEN 0
    ELSE (IF /\ PlayerStats[i].game = g
             /\ PlayerStats[i].period = 0
             /\ upper(PlayerStats[i].team) # upper(opponent)
          THEN PlayerStats[i].pts ELSE 0) + PointsAllowedFrom(i + 1, opponent, g)

RECURSIVE TotalAllowed(_, _)
TotalAllowed(opponent, games) ==
    IF games = {} THEN 0
    ELSE LET g == CHOOSE h \in games : TRUE
         IN  PointsAllowedFrom(1, opponent, g) + TotalAllowed(opponent, games \ {g})

\* the most recent of a non-empty set of games
MostRecent(games) == CHOOSE g \in games : \A h \in games : Game[h].date <= Game[g].date

\* the up to 10 games that precede the most recent of the games
PrecedingTen(games) ==
    LET preceding == games \ {MostRecent(games)}
    IN  {g \in preceding :
            Cardinality({h \in preceding : Game[h].date > Game[g].date}) < 10}

\* the days a defense value is asked for, and no day
DefenseDates == AsOfDates \cup {NoDate}

\* C29 -- opponent defense: for every opponent and as-of date,
\* _get_opponent_pts_allowed returns a value exactly when the opponent has at
\* least two qualifying games before the date, the value is the mean of the
\* points allowed over the up to 10 games before the most recent one, and a
\* request that finds exactly one qualifying game returns None with "Not
\* enough opponent history to build features."
C29_OpponentDefense ==
    /\ \A opponent \in Teams : \A d \in DefenseDates :
          LET games == QualifyingGames(opponent, d)
              value == _get_opponent_pts_allowed(opponent, d)
          IN  /\ value # NoFloat <=> Cardinality(games) >= 2
              /\ Cardinality(games) >= 2 =>
                    value = Rat(TotalAllowed(opponent, PrecedingTen(games)),
                                Cardinality(PrecedingTen(games)))
    /\ /\ Requested
       /\ last.frame.history_df # <<>>
       /\ Cardinality(QualifyingGames(
              last.args.opponent,
              last.frame.history_df[Len(last.frame.history_df)].date)) = 1
       => last.frame.result = <<NoPlayer, "Not enough opponent history to build features.">>

\* a request found exactly one qualifying game of its opponent and was
\* refused, while another opponent has more than 11 qualifying games
C29_Witness ==
    /\ Requested
    /\ last.frame.history_df # <<>>
    /\ Cardinality(QualifyingGames(
           last.args.opponent,
           last.frame.history_df[Len(last.frame.history_df)].date)) = 1
    /\ last.frame.result[1] = NoPlayer
    /\ Cardinality(QualifyingGames("LAL", NoDate)) > 11
    /\ _get_opponent_pts_allowed("LAL", NoDate) # NoFloat

\* a step of predict_probability: the cache key asked for was cached before
\* the call, and the call left a model under it
Hit == last'.op = "predict_probability"
          /\ (last'.args.stat \o "_" \o last'.args.model_type) \in DOMAIN _models

Stored == last'.op = "predict_probability"
             /\ (last'.args.stat \o "_" \o last'.args.model_type) \in DOMAIN _models'

\* C30 -- model cache: no step removes or replaces a cached model; a call for
\* a cached key returns the cached model without reading a file; a call for
\* a key that is not cached reads the artifact if there is one and caches
\* the model under the key, and otherwise returns None and stores nothing.
C30_ModelCache ==
    [][/\ \A k \in DOMAIN _models : k \in DOMAIN _models' /\ _models'[k] = _models[k]
       /\ _models' # _models => last'.op = "predict_probability"
       /\ Hit => /\ last'.frame.read = NoPath
                 /\ last'.frame.model
                        = _models[last'.args.stat \o "_" \o last'.args.model_type]
                 /\ _models' = _models
       /\ last'.op = "predict_probability" /\ ~Hit =>
             LET path == ArtifactPath(StatKey(last'.args.stat), last'.args.model_type)
             IN  /\ last'.frame.read = path
                 /\ path # NoPath =>
                       /\ last'.frame.model = model_files[path]
                       /\ Stored
                       /\ DOMAIN _models' = DOMAIN _models
                              \cup {last'.args.stat \o "_" \o last'.args.model_type}
                       /\ _models'[last'.args.stat \o "_" \o last'.args.model_type]
                              = model_files[path]
                 /\ path = NoPath => last'.frame.model = NoModel /\ _models' = _models
      ]_vars

\* predict_probability was answered from the cache
C30_Witness ==
    /\ last.op = "predict_probability"
    /\ last.frame.read = NoPath
    /\ last.frame.model # NoModel
    /\ (last.args.stat \o "_" \o last.args.model_type) \in DOMAIN _models


====
